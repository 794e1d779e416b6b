--------------------------- MODULE MCPiiPipeline ---------------------------
(* Small instances of PiiPipeline for TLC: two tables of one column each;    *)
(* when both workers have failed, the last value finds the channel full.     *)
EXTENDS PiiPipeline

TwoTables ==
    <<"column", "value", "blank", "value", "column", "value", "value">>
=============================================================================
