---------------------------- MODULE MCArgumentChecks ----------------------------
(* Small instances of ArgumentChecks for TLC: words of 6 bits, sizes of 12. *)
EXTENDS ArgumentChecks

Array(t, n) == [type |-> t, length |-> n]
Image(w, h, b) == [width |-> w, height |-> h, bpp |-> b]

MCCorners == {<<0, 0, 0>>, <<1, 0, 0>>, <<0, 1, 0>>, <<2, 1, 1>>, <<62, 0, 3>>}
MCRegions == {<<0, 1, 1>>, <<1, 1, 1>>, <<2, 1, 1>>, <<2, 2, 1>>, <<1, 2, 2>>, <<3, 2, 1>>}
MCPitches == {<<0, 0>>, <<2, 0>>, <<3, 0>>, <<0, 4>>, <<2, 4>>, <<4, 63>>}
MCImages  == {Image(2, 1, 1), Image(3, 2, 2), Image(4, 4, 8)}
MCArrays  == {Array("Buffer", 3), Array("Buffer", 40), Array("Uint8Array", 1), Array("Uint8Array", 4),
              Array("Uint8Array", 18), Array("Int16Array", 4), Array("Int32Array", 1), Array("Int32Array", 3),
              Array("Float64Array", 3), Array("Float64Array", 5)}
MCParams  == [type : BaseTypes, width : {1, 2, 3, 4}, local : {FALSE}, known : BOOLEAN]
             \cup [type : {"int"}, width : {1}, local : {TRUE}, known : BOOLEAN]

=============================================================================
