---- MODULE MCPatchTool ----
(* One resource overridden and one added in one patch, one named twice, and *)
(* one that is a copy of another.                                           *)
EXTENDS PatchTool
CONSTANTS stock1, stock2, added
Item(r, v) == [res |-> r, data |-> v, from |-> None]
Copy(r, s) == [res |-> r, data |-> None, from |-> s]
MCStock == <<stock1, stock2>>
MCNew == {added}
MCPatches == {<<Item(stock1, "a"), Item(added, "a")>>,
              <<Item(stock2, "b"), Item(stock2, "c")>>,
              <<Copy(added, stock1)>>}
====
