------------------------------ MODULE MCConfigEdit ------------------------------
EXTENDS ConfigEdit
MCBase == [p \in Paths |-> IF p = "work" THEN "work" ELSE "docs"]
MCWithin == {<<"work/docs", "work">>}
===============================================================================
