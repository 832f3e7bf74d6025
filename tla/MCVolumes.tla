------------------------------ MODULE MCVolumes ------------------------------
(* Model-checking instances of Volumes.  Names are sequences of one-letter *)
(* strings; the prefix "kubedock-vol-" is scaled down to one letter and    *)
(* the 63-character limit to 3, which keeps 2 characters of the name, just *)
(* as the real limit keeps the first 50 characters of a name.              *)
EXTENDS Volumes, TLC

MCPrefix == <<"v">>

\* Names that stay distinct after truncation.
MCDistinctNames == {<<"a">>, <<"b", "a">>, <<"b", "b">>}

\* Two names longer than the limit that share their first 2 characters.
MCLongNames == {<<"a">>, <<"b", "a", "a">>, <<"b", "a", "b">>}

MCClientSymmetry == Permutations(Clients)
=============================================================================
