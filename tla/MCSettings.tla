----------------------------- MODULE MCSettings -----------------------------
(* Instances of Settings: integers of three and four bits, floats of three,  *)
(* and a value of each form that the readers tell apart, at the bounds.        *)
EXTENDS Settings, TLC

MCBits == [kind \in IntKinds \cup UintKinds |-> IF kind \in {"int8", "uint8"} THEN 3 ELSE 4]

\* Every other number beyond eight is a float.
MCRounded(i) == IF i \in -8 .. 8 THEN i ELSE 2 * (i \div 2)

CONSTANTS c1, c2

MCGoValues ==
  c1 :> {GoInt("int8", 2)} @@
  c2 :> {GoInt("uint64", 15), GoFloat(Frac(1)), GoTime(9, TRUE)}

MCTexts == {Empty} \cup {Num(i) : i \in -20 .. 20} \cup {Padded(7), Padded(17), Padded(-9)}
  \cup UNION {{Frac(i), Exp(i), Cents(i), Stamp(i), Json(i), Word(i), Split(i)} : i \in {0, 9}}
  \cup UNION {{Infinite(i), Inf(i)} : i \in -1 .. 1}
  \cup UNION {{Truth(b), Spelled(b), Clock(3, b)} : b \in BOOLEAN}

MCValues ==
  {GoString(t) : t \in MCTexts} \cup {GoFloat(t) : t \in {u \in MCTexts : IsFloatText(u)}}
  \cup {v \in {GoInt(kind, i) : kind \in IntKinds \cup UintKinds, i \in -20 .. 20} : InRange(v.kind, v.x.n)}
  \cup {GoBool(TRUE), GoBool(FALSE), GoTime(3, TRUE), GoTime(3, FALSE), GoStruct(3), GoNil, GoFunc}
=============================================================================
