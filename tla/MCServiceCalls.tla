--------------------------- MODULE MCServiceCalls ---------------------------
(***************************************************************************)
(* A small instance of the service calls for TLC.                          *)
(***************************************************************************)
EXTENDS ServiceCallsProperties

\* A pair whose second plugin cannot be loaded, and a traffic plugin alone.
PluginPairs == {<<"d2", "?">>, <<"", "t2">>}

=============================================================================
