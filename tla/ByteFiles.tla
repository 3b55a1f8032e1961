------------------------------ MODULE ByteFiles ------------------------------
(* What src/kernel/fs.c promises of file contents: each inode is a sequence of
   bytes, which a write overwrites or extends without a gap, and which is
   emptied as a whole.  No operation on one inode shows in another.        *)
EXTENDS Naturals, Sequences

CONSTANTS Inodes,
          Data(_, _)     \* Data(i, k): the byte written at position k of inode i

VARIABLE content     \* inode -> the bytes a reader sees

(* A write leaves every position as it was or with the byte written there, and
   what it adds follows the old end without a gap.                         *)
Write(i) ==
  LET old == content[i]
      new == content'[i]
  IN /\ Len(new) >= Len(old)
     /\ \A k \in 1..Len(new) :
          new[k] = Data(i, k) \/ (k <= Len(old) /\ new[k] = old[k])
     /\ content' = [content EXCEPT ![i] = new]

Truncate(i) == content' = [content EXCEPT ![i] = <<>>]

Next == \E i \in Inodes : Write(i) \/ Truncate(i)

(* A file begins as mkfs left it, filled with zeroes.                      *)
Init == content \in [Inodes -> Seq({0})]

Spec == Init /\ [][Next]_content
=============================================================================
