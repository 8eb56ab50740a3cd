----------------------------- MODULE MCKeyScan -----------------------------
(* Bytes 0 and 1, the latter standing for 0xFF; keys of one and two bytes *)
EXTENDS KeyScan

StoredKeys == {<<0>>, <<0, 1>>, <<1>>, <<1, 1>>}

CallerKeys == {<<>>, <<0>>, <<0, 1>>, <<1>>, <<1, 0>>}
=============================================================================
