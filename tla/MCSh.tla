-------------------------------- MODULE MCSh --------------------------------
(* Instances of Sh for TLC.                                                 *)
EXTENDS Sh

SomeSessions ==
  {<<<<"a", "|", "b", "|", "c">>>>,
   <<<<"(", "a", ";", "b", ")", "|", "c", ">", "f">>>>,
   <<<<"(", "a", "&", ")", "|", "b">>>>,
   <<<<"cd", "d">>, <<"a", "<", "f", "&", ";", "b">>, <<"c">>>>,
   <<<<"(", "a">>, <<"a">>>>}

(* The commands of two levels over two simple ones.                         *)
Leaves == {execcmd(<<>>), execcmd(<<"a">>), execcmd(<<"a", "b">>),
           redircmd(redircmd(execcmd(<<"a">>), "f", "r", 0), "g", "create|trunc", 1)}
Over(S) == {backcmd(t) : t \in S} \union {redircmd(t, "f", "create", 1) : t \in S}
             \union {pipecmd(t, u) : t \in S, u \in S} \union {listcmd(t, u) : t \in S, u \in S}
SmallTrees == Leaves \union Over(Leaves) \union
              Over({pipecmd(t, t) : t \in Leaves} \union {listcmd(t, t) : t \in Leaves}
                     \union {backcmd(t) : t \in Leaves} \union {execcmd(<<"a">>)})
=============================================================================
