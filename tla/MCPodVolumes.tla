---------------------------- MODULE MCPodVolumes ----------------------------
EXTENDS PodVolumes

MCPrefix        == <<"v">>
MCPodPrefix     == <<"n">>
MCShortNames    == {<<"a">>, <<"b">>, <<"a", "b">>}
MCLongNames     == {<<"a">>, <<"b">>, <<"a", "b">>, <<"a", "b", "a">>}
=============================================================================
