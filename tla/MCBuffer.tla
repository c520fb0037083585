------------------------------ MODULE MCBuffer ------------------------------
(***************************************************************************)
(* Buffer for TLC.  Strings of one to four bytes against chunks of three:  *)
(* a string can fit behind another, fill a chunk exactly, need a chunk of  *)
(* its own or be longer than IO_BUFFER_SIZE.  The buffer never looks at a  *)
(* byte's value; the strings differ so that a byte out of place shows.     *)
(***************************************************************************)
EXTENDS Buffer

MCByte == 1..9
MCInput == {<<1>>, <<2, 3>>, <<4, 5, 6>>, <<7, 8, 9, 7>>}
MCCount == {1, 2, 7}
=============================================================================
