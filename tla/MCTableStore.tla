---------------------------- MODULE MCTableStore ----------------------------
(* Instances of TableStore for TLC.                                        *)
EXTENDS TableStore

\* Identifiers of which one begins with another.
MCDeviceId == {<<1>>, <<1, 1>>}
MCName == {<<1>>, <<1, 2>>}

\* Bytes that would be taken for another if their order were.
MCPropertyId == {1, 256}
MCSecond == {100, 256}

=============================================================================
