----------------------------- MODULE MCExporter -----------------------------
(***************************************************************************)
(* An instance of Exporter with two keys in one period and the clock       *)
(* running into the next, the writers in the periods that tell them apart, *)
(* a request of a run per conflict mode (of a whole file, of part of one   *)
(* and of two files), a key that may be stored past the writer and a       *)
(* pruner for each key.                                                    *)
(***************************************************************************)
EXTENDS Exporter

MCConfigs == {<<"lines", "fixed">>, <<"raw", "all">>, <<"whole", "fixed">>, <<"whole", "all">>}

MCLines == {<<"lines", "fixed">>}

Export(on, mode, after, before) ==
  [on |-> on, mode |-> mode, after |-> after, before |-> before]

MCRequests ==
  { Export("overwrite", "expand", 0, 1), Export("purge", "expand", 0, 1),
    Export("skip", "exact", 1, 2), Export("error", "shrink", 0, 4) }
=============================================================================
