--------------------------------- MODULE MCTrie ---------------------------------
(***************************************************************************)
(* Keys for TLC: those of the tests, and others that leave them at every     *)
(* nibble; values on either side of what a node is guessed by.               *)
(***************************************************************************)
EXTENDS MerklePatriciaTrie

Do == <<100, 111>>
Dog == Do \o <<103>>
MCKeys ==
    {<<>>, <<100>>, Do, Dog, Dog \o <<101>>, Dog \o <<101, 115>>,
     Do \o <<1>>, Do \o <<1, 7>>,           \* a key that begins with nibble 0
     <<100, 97>>, <<101>>, <<116>>,         \* leave do at its last nibbles
     <<104, 111, 114, 115, 101>>, <<104, 97, 116>>}     \* horse and hat

MCValues ==
    {<<118, 101, 114, 98>>, <<>>, <<120>>,  \* verb, nothing, x
     <<48, 120, 49, 50>>, <<195, 169>>}     \* 0x12, a letter beyond ASCII
=============================================================================
