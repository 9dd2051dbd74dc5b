------------------------ MODULE MCInformationObjects ------------------------
(* Objects and rooms for InformationObjects: each field with its usual value *)
(* and with those at its edges, and room from a byte less than one object    *)
(* takes to just two.                                                        *)
EXTENDS InformationObjects, FiniteSetsExt

(* Values of a field, the first is the usual one.                            *)
ValuesOf(kind) ==
  CASE kind = "siq" -> << [value |-> TRUE, quality |-> 0],
                          [value |-> FALSE, quality |-> 240] >>
    [] kind = "diq" -> <<[value |-> 2, quality |-> 0], [value |-> 3, quality |-> 144]>>
    [] kind = "vti" -> << [value |-> -1, transient |-> TRUE],
                          [value |-> 100, transient |-> FALSE],
                          [value |-> -64, transient |-> FALSE],
                          [value |-> -100, transient |-> TRUE] >>
    [] kind = "sco" -> << [qu |-> 0, state |-> 1, select |-> FALSE],
                          [qu |-> 33, state |-> 0, select |-> TRUE] >>
    [] kind = "dco" -> << [qu |-> 0, state |-> 2, select |-> FALSE],
                          [qu |-> 33, state |-> 3, select |-> TRUE] >>
    [] kind = "qos" -> <<[ql |-> 0, select |-> TRUE], [ql |-> 127, select |-> FALSE]>>
    [] kind = "noQuality" -> <<0>>
    [] kind = "byte" -> <<16, 129>>
    [] kind \in {"nva", "nvb"} -> <<-1, 32767, -40000, 256>>
    [] kind = "sva" -> <<-1, 32767, -32768, 255>>
    [] kind = "nof" -> <<513, 65535>>
    [] kind = "lof" -> <<197121, 16777215>>
    [] kind = "lostLof" -> << [length |-> 300, memory |-> 0],
                              [length |-> 300, memory |-> 300] >>
    [] kind = "testPattern" -> <<<<204, 85>>>>
    [] kind = "bsi" -> <<67305985, 0, 2147483647, -1, -16777216>>
    [] kind = "segment" -> <<<<5, 6>>, <<>>, <<7, 8, 9, 10, 11, 12, 13>>>>
    [] OTHER -> <<[k \in 1..Width[kind] |-> k], [k \in 1..Width[kind] |-> 256 - k]>>

Usual(t) == [k \in DOMAIN FieldsOf(t) |-> ValuesOf(FieldsOf(t)[k])[1]]

(* At most one value is not the usual one.                                   *)
Values(t) ==
  {Usual(t)} \cup
    UNION {{[Usual(t) EXCEPT ![k] = v] : v \in Range(ValuesOf(FieldsOf(t)[k]))} :
             k \in DOMAIN FieldsOf(t)}

LowAddress(n) == 197121 % Power[n + 1]
HighAddress(n) == Power[n + 1] - MaxObjects

MCSamples(t, n) ==
  {[ioa |-> a, fields |-> Usual(t)] : a \in {LowAddress(n), HighAddress(n)}}
    \cup {[ioa |-> Min({LowAddress(n), HighAddress(n)}), fields |-> f] : f \in Values(t)}

MCRooms(t, n, s) ==
  LET one == n + Len(Encoded(FieldsOf(t), Usual(t)))
      two == one + (IF s THEN SizeOf(FieldsOf(t)) ELSE one)
  IN  (one - 1)..two
=============================================================================
