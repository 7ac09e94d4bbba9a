---------------------------- MODULE MCByteArray ----------------------------
(* A small instance of ByteArray.                                          *)
EXTENDS ByteArray

\* 4 is, read as a signed word of three bits, the smallest number: its
\* zigzag code is the largest word.
MCValues == {4}
MCData == {<< >>, <<1, 1, 3>>}
=============================================================================
