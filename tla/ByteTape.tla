------------------------------ MODULE ByteTape ------------------------------
(***************************************************************************)
(* What ByteArray promises: a tape of bytes with a position.  Writing      *)
(* replaces or appends, reading delivers what is there, both move on; the  *)
(* position may be set past the end, which makes the tape longer.          *)
(***************************************************************************)
EXTENDS Naturals, Sequences

CONSTANTS Byte, MaxLen

VARIABLES tape, position, got   \* got: the bytes the last step delivered

\* n bytes at the position are replaced or appended.
Write(n) ==
  LET end == position + n IN
  /\ Len(tape') = IF end > Len(tape) THEN end ELSE Len(tape)
  /\ \A i \in 1 .. Len(tape') :
       IF i \in position + 1 .. end THEN tape'[i] \in Byte
                                   ELSE tape'[i] = tape[i]
  /\ position' = end
  /\ got' = << >>

Read(n) ==
  /\ position + n <= Len(tape)
  /\ position' = position + n
  /\ got' = SubSeq(tape, position + 1, position + n)
  /\ UNCHANGED tape

Seek(p) ==
  /\ position' = p
  /\ \/ p <= Len(tape) /\ UNCHANGED tape
     \/ /\ p > Len(tape)
        /\ Len(tape') = p /\ SubSeq(tape', 1, Len(tape)) = tape
        /\ \A i \in 1 .. p : tape'[i] \in Byte
  /\ got' = << >>

Clear == tape' = << >> /\ position' = 0 /\ got' = << >>

Init == tape = << >> /\ position = 0 /\ got = << >>
Next ==
  \/ \E n \in 1 .. MaxLen : Write(n)
  \/ \E n \in 0 .. MaxLen : Read(n)
  \/ \E p \in 0 .. MaxLen : Seek(p)
  \/ Clear

Spec == Init /\ [][Next]_<<tape, position, got>>
=============================================================================
