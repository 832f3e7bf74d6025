--------------------------- MODULE MCVolumeFilter ---------------------------
EXTENDS VolumeFilter

MCDrivers     == {<<"l">>, <<"n">>}
MCLabelKeys   == {<<"e">>}
MCLabelValues == {<<>>, <<"t">>}
=============================================================================
