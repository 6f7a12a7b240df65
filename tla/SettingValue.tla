---------------------------- MODULE SettingValue ----------------------------
(***************************************************************************)
(* The values of setting/settings.go. A Value holds a text and nothing     *)
(* else that is ever read, so that what a reader gets depends on what the  *)
(* text looks like and not on the type that was written. Texts are         *)
(* abstracted to the forms which the parsers of the package tell apart.    *)
(***************************************************************************)
EXTENDS Integers

CONSTANTS
  IntKinds,   \* the signed integer types of Go
  UintKinds,  \* the unsigned ones
  Bits,       \* the width of each of them
  Rounded(_)  \* the float64 next to a whole number

OtherKinds == {"string", "bool", "float", "time", "struct", "nil", "func"}

ASSUME KindsAssumption ==
  /\ IntKinds \cap UintKinds = {} /\ OtherKinds \cap (IntKinds \cup UintKinds) = {}
  /\ "int64" \in IntKinds /\ "uint64" \in UintKinds
  /\ Bits \in [IntKinds \cup UintKinds -> Nat \ {0}]

-----------------------------------------------------------------------------
(* Texts. *)

Empty     == [form |-> "empty", n |-> 0]
Num(i)    == [form |-> "num", n |-> i]      \* 7, -7
Padded(i) == [form |-> "padded", n |-> i]   \* 007
Frac(i)   == [form |-> "frac", n |-> i]     \* 7.5 for i = 7
Exp(t)    == [form |-> "exp", n |-> t]      \* the number t/2, with an exponent
Cents(t)  == [form |-> "cents", n |-> t]    \* the number t/2, with two decimals
Infinite(i) == [form |-> "infinite", n |-> i]   \* -Inf, NaN and +Inf for i = -1, 0, 1
Inf(i)    == [form |-> "inf", n |-> i]      \* other spellings of them: inf, nan
Truth(b)  == [form |-> "truth", n |-> IF b THEN 1 ELSE 0]   \* true, false
Spelled(b) == [form |-> "spelled", n |-> IF b THEN 1 ELSE 0] \* t, T, TRUE, True, f, F, ...
Stamp(t)  == [form |-> "stamp", n |-> t]    \* a time as in RFC 3339
Json(j)   == [form |-> "json", n |-> j]
Split(w)  == [form |-> "split", n |-> w]    \* a word, the separator of times, a rest
Word(w)   == [form |-> "word", n |-> w]     \* anything else

\* A serialised time: the stamp, the separator and the name of its zone, which
\* LoadLocation either knows or does not.
Clock(t, known) == [form |-> IF known THEN "clock" ELSE "lostclock", n |-> t]

Forms == {"empty", "num", "padded", "frac", "exp", "cents", "infinite", "inf", "truth",
          "spelled", "stamp", "json", "split", "word", "clock", "lostclock"}

Texts == [form : Forms, n : Int]

\* What a reader returns: a result, an infinite one, or ErrInvalidValue.
Ok(x)        == [ok |-> TRUE, x |-> x]
NotFinite(i) == [ok |-> TRUE, inf |-> i]
Invalid      == [ok |-> FALSE, x |-> 0]

InRange(kind, x) ==
  IF kind \in IntKinds
  THEN -(2^(Bits[kind] - 1)) <= x /\ x < 2^(Bits[kind] - 1)
  ELSE 0 <= x /\ x < 2^Bits[kind]

\* What ParseUint or ParseInt reads in 64 bits.
InWord(x) == InRange("uint64", x) \/ InRange("int64", x)

-----------------------------------------------------------------------------
(* Values of Go: the kind and the content; the content of a string is the  *)
(* text, that of a float twice its value.                                  *)

GoString(text)   == [kind |-> "string", x |-> text]
GoBool(b)        == [kind |-> "bool", x |-> Truth(b)]
GoInt(kind, i)   == [kind |-> kind, x |-> Num(i)]
GoFloat(text)    == [kind |-> "float", x |-> text]
GoTime(t, known) == [kind |-> "time", x |-> Clock(t, known)]
GoStruct(j)      == [kind |-> "struct", x |-> Json(j)]
GoNil            == [kind |-> "nil", x |-> Empty]
GoFunc           == [kind |-> "func", x |-> Empty]

\* A text that there is, and what a program can hold in a variable.
IsText(t) ==
  /\ t \in Texts
  /\ t.form = "empty" => t.n = 0
  /\ t.form \in {"truth", "spelled"} => t.n \in {0, 1}
  /\ t.form \in {"infinite", "inf"} => t.n \in {-1, 0, 1}

\* What FormatFloat writes with 'g': from a million on, and for all that is very small,
\* an exponent.
IsFloatText(t) ==
  IsText(t) /\ t.form \in {"num", "frac", "exp", "infinite"} /\ (t.form = "num" => Rounded(t.n) = t.n)

IsGoValue(v) ==
  \/ IsText(v.x) /\ v = GoString(v.x)
  \/ v \in {GoBool(TRUE), GoBool(FALSE), GoNil, GoFunc}
  \/ /\ v.kind \in IntKinds \cup UintKinds /\ v = GoInt(v.kind, v.x.n)
     /\ v.x.n \in Int /\ InRange(v.kind, v.x.n)
  \/ IsFloatText(v.x) /\ v = GoFloat(v.x)
  \/ v.x.n \in Int /\ v \in {GoTime(v.x.n, TRUE), GoTime(v.x.n, FALSE), GoStruct(v.x.n)}

\* A bug for the checks: the value is kept as it is in Go.
NewValueRaw(val) == val

\* A string that is a time becomes one, every other keeps its text; the types
\* that cannot be stored become the empty text.
NewValue(val) ==
  IF val.kind = "string" /\ val.x.form = "stamp" THEN Clock(val.x.n, TRUE) ELSE val.x

-----------------------------------------------------------------------------
(* Readers. *)

Bool(v) ==
  CASE v.form = "empty" -> Ok(0)
    [] v.form \in {"truth", "spelled"} \/ (v.form = "num" /\ v.n \in {0, 1}) -> Ok(v.n)
    [] OTHER -> Invalid

\* A bug for the checks: the number is cut to the width of the type.
IntegerCut(kind, v) ==
  IF Bool(v).ok THEN Bool(v)
  ELSE IF v.form \in {"num", "padded"} THEN Ok(v.n % 2^Bits[kind]) ELSE Invalid

\* Int, Int8, ..., Uint64: a boolean first, then ParseInt or ParseUint with the
\* width of the type.
Integer(kind, v) ==
  IF Bool(v).ok THEN Bool(v)
  ELSE IF v.form \in {"num", "padded"} /\ InRange(kind, v.n) THEN Ok(v.n)
  ELSE Invalid

\* Float64, twice its value; Float32 has fewer bits.
Float(v) ==
  CASE Bool(v).ok -> Ok(2 * Bool(v).x)
    [] ~Bool(v).ok /\ v.form \in {"num", "padded"} -> Ok(2 * Rounded(v.n))
    [] v.form = "frac" -> Ok(2 * v.n + 1)
    [] v.form \in {"exp", "cents"} -> Ok(v.n)
    [] v.form \in {"infinite", "inf"} -> NotFinite(v.n)
    [] OTHER -> Invalid

Time(v) == IF v.form = "clock" THEN Ok(v.n) ELSE Invalid

\* A float as text: "%.2f".
FloatString(v) == IF v.form \in {"infinite", "inf"} THEN Infinite(v.n) ELSE Cents(Float(v).x)

\* String and Byte: numbers are written anew, as floats if they do not fit into 64
\* bits; times lose their zone.
String(v) ==
  CASE v.form \in {"num", "padded"} /\ InWord(v.n) -> Num(v.n)
    [] v.form \in {"num", "padded"} /\ ~InWord(v.n) -> Cents(2 * Rounded(v.n))
    [] v.form \in {"frac", "exp", "cents", "infinite", "inf"} -> FloatString(v)
    [] v.form \in {"clock", "lostclock"} -> Stamp(v.n)
    [] v.form = "split" -> Word(v.n)
    [] OTHER -> v

\* Unmarshal into a string, with old in it before: a boolean comes first.
UnmarshalString(v, old, kind) ==
  CASE v.form = "empty" -> Empty
    [] v.form # "empty" /\ Bool(v).ok -> Truth(Bool(v).x = 1)
    [] ~Bool(v).ok /\ Integer(kind, v).ok -> Num(v.n)
    [] ~Bool(v).ok /\ ~Integer(kind, v).ok /\ Float(v).ok -> FloatString(v)
    [] v.form = "clock" -> Stamp(v.n)
    [] v.form \in {"lostclock", "split"} -> old
    [] v.form \in {"stamp", "json", "word"} -> v

\* Unmarshal into a struct, a map or a slice; a time in an unknown zone leaves it
\* as it was and is no error, and so does a text that only has the separator.
UnmarshalStruct(v, old) ==
  CASE v.form \in {"clock", "json"} -> Ok(v.n)
    [] v.form \in {"lostclock", "split"} -> Ok(old)
    [] OTHER -> Invalid

-----------------------------------------------------------------------------
(* The promise of a Value for what was written as val: it is read as the   *)
(* same type and content. No other integer type gives a different number,  *)
(* and Unmarshal agrees with the readers. Strings are only kept if they do *)
(* not look like something else: String keeps integers of 64 bits and all  *)
(* booleans as they are spelled, and Unmarshal nothing but true and false. *)
ReadsBackAs(val, v) ==
  /\ val.kind \in IntKinds \cup UintKinds => Integer(val.kind, v) = Ok(val.x.n)
  /\ \A kind \in IntKinds \cup UintKinds :
       Integer(kind, v).ok /\ v.form \in {"num", "padded"} => Integer(kind, v).x = v.n
  /\ val.kind = "bool" => Bool(v) = Ok(val.x.n)
  /\ val.kind = "float" => \/ val.x.form = "num" /\ Float(v) = Ok(2 * val.x.n)
                           \/ val.x.form = "frac" /\ Float(v) = Ok(2 * val.x.n + 1)
                           \/ val.x.form = "exp" /\ Float(v) = Ok(val.x.n)
                           \/ val.x.form = "infinite" /\ Float(v) = NotFinite(val.x.n)
  /\ val.kind = "time" /\ val.x.form = "clock" =>
       Time(v) = Ok(val.x.n) /\ UnmarshalStruct(v, 0) = Ok(val.x.n)
  /\ val.kind = "string" /\ (\/ val.x.form \in {"empty", "json", "word", "stamp", "truth", "spelled"}
                             \/ val.x.form = "num" /\ InWord(val.x.n)) =>
       String(v) = val.x
  /\ val.kind = "string" /\ val.x.form \in {"empty", "json", "word", "stamp", "truth"} =>
       \A kind \in IntKinds : UnmarshalString(v, Empty, kind) = val.x
=============================================================================
