------------------------ MODULE MCCreateBlockRetry ------------------------
(***************************************************************************)
(* CreateBlockRetry with every constructor of the error package, bare, or  *)
(* wrapped as CreateBlock wraps, or wrapped in a standard error.           *)
(***************************************************************************)
EXTENDS CreateBlockRetry

AllErrors ==
    {<<"standard">>}
    \cup {<<e>> : e \in IndexerErrorNames}
    \cup {<<"QueryFailed", e>> : e \in IndexerErrorNames}
    \cup {<<"standard", e>> : e \in IndexerErrorNames}
=============================================================================
