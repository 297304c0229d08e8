------------------------------- MODULE Format ------------------------------
(***************************************************************************)
(* FmtBase<Serial>::printf of src/kernel/Source/core/format.hh, the        *)
(* positional-substitution formatter kpanic uses.                          *)
(*                                                                         *)
(* A call printf(fmt, args...) is a run of this specification: the format  *)
(* string and the argument list are chosen in Init, and each step is one   *)
(* iteration of the loop over fmt (or the final puts of the overload that  *)
(* takes no argument, which the recursion ends in).  Characters are        *)
(* one-character strings; `out` is what reaches Serial::put.  Arguments    *)
(* are records tagged by the overload they select (see print); integers    *)
(* stay below 2^31, the range TLC's integers hold, so the u64 digit caps   *)
(* of the conversion loops are kept but never reached.                     *)
(***************************************************************************)
EXTENDS Integers, Sequences, SequencesExt

CONSTANT
  Cases   \* <<fmt, args>> pairs a caller may pass

Digits == {"0", "1", "2", "3", "4", "5", "6", "7", "8", "9"}
Upper == <<"0","1","2","3","4","5","6","7","8","9","A","B","C","D","E","F">>
DigitVal(c) == CHOOSE d \in 0..9 : Upper[d + 1] = c
Lower == <<"0","1","2","3","4","5","6","7","8","9","a","b","c","d","e","f">>

-----------------------------------------------------------------------------
(* The conversions.  Each loop fills buf least significant digit first,   *)
(* and the swap loop then reverses it.                                     *)

\* while (v && idx < 16) buf[idx++] = table[v & 0xF], v >>= 4;
RECURSIVE HexLoop(_, _, _)
HexLoop(v, table, idx) ==
  IF v = 0 \/ idx = 16 THEN <<>>
  ELSE <<table[(v % 16) + 1]>> \o HexLoop(v \div 16, table, idx + 1)

\* (mutant) the swap loop that reverses the buffer is left out
make_hex_string_NoReverse(v, lowercase) ==
  IF v = 0 THEN <<"0">> ELSE HexLoop(v, IF lowercase THEN Lower ELSE Upper, 0)

make_hex_string(v, lowercase) ==
  IF v = 0 THEN <<"0">>
  ELSE Reverse(HexLoop(v, IF lowercase THEN Lower ELSE Upper, 0))

RECURSIVE BinLoop(_, _)
BinLoop(v, idx) ==
  IF v = 0 \/ idx = 64 THEN <<>>
  ELSE <<IF v % 2 = 1 THEN "1" ELSE "0">> \o BinLoop(v \div 2, idx + 1)

make_bin_string(v) == IF v = 0 THEN <<"0">> ELSE Reverse(BinLoop(v, 0))

\* do { buf[len++] = '0' + v % 10; v /= 10; } while (v && len < 24);
RECURSIVE DecLoop(_, _)
DecLoop(v, len) ==
  <<Upper[(v % 10) + 1]>> \o
    (IF v \div 10 = 0 \/ len + 1 = 24 THEN <<>> ELSE DecLoop(v \div 10, len + 1))

make_dec_string(v) == Reverse(DecLoop(v, 0))

\* (mutant) the pad count taken from the width alone
print_padded_WholeWidth(str, width, zero_pad) ==
  [i \in 1..width |-> IF zero_pad THEN "0" ELSE " "] \o str

print_padded(str, width, zero_pad) ==
  LET pad == width - Len(str)
  IN  (IF pad > 0 THEN [i \in 1..pad |-> IF zero_pad THEN "0" ELSE " "]
                  ELSE <<>>) \o str

-----------------------------------------------------------------------------
(* parse_spec and route                                                   *)

\* The width loop: digits after the flags, accumulated in base 10.
RECURSIVE WidthLoop(_, _, _)
WidthLoop(spec, i, w) ==
  IF i < Len(spec) /\ spec[i + 1] \in Digits
  THEN WidthLoop(spec, i + 1, w * 10 + DigitVal(spec[i + 1]))
  ELSE [i |-> i, w |-> w]

\* (mutant) the '#' and '0' flags tested in the other order
parse_spec_FlagsSwapped(spec) ==
  LET i0 == IF Len(spec) >= 1 /\ spec[1] = ":" THEN 1 ELSE 0
      zp == i0 < Len(spec) /\ spec[i0 + 1] = "0"
      i1 == i0 + (IF zp THEN 1 ELSE 0)
      alt == i1 < Len(spec) /\ spec[i1 + 1] = "#"
      i2 == i1 + (IF alt THEN 1 ELSE 0)
      wl == WidthLoop(spec, i2, 0)
  IN  [alternate |-> alt, zero_pad |-> zp, width |-> wl.w,
       type |-> IF wl.i < Len(spec) THEN spec[wl.i + 1] ELSE ""]

\* i is the count of characters consumed; type "" stands for char 0.
parse_spec(spec) ==
  LET i0 == IF Len(spec) >= 1 /\ spec[1] = ":" THEN 1 ELSE 0
      alt == i0 < Len(spec) /\ spec[i0 + 1] = "#"
      i1 == i0 + (IF alt THEN 1 ELSE 0)
      zp == i1 < Len(spec) /\ spec[i1 + 1] = "0"
      i2 == i1 + (IF zp THEN 1 ELSE 0)
      wl == WidthLoop(spec, i2, 0)
  IN  [alternate |-> alt, zero_pad |-> zp, width |-> wl.w,
       type |-> IF wl.i < Len(spec) THEN spec[wl.i + 1] ELSE ""]

\* puts: '\n' goes out as "\r\n".
puts(s) == FlattenSeq([i \in 1..Len(s) |->
                         IF s[i] = "\n" THEN <<"\r", "\n">> ELSE <<s[i]>>])

\* put_dec: do { buf[len++] = '0' + v % 10; v /= 10; } while (v && len < 24);
\* then the buffer is put from the last digit down.
put_dec(v) == Reverse(DecLoop(v, 0))

\* print for the argument kinds route hands to it:
\*   [kind |-> "int", v]   an integral value: its decimal digits;
\*   [kind |-> "str", s]   const char*, char* or a char array: puts;
\*   [kind |-> "sv", s]    ktl::string_view: each char put as it is;
\*   [kind |-> "arr", e]   an integer array: "[", elements, "]";
\*   [kind |-> "pair", a, b] a ktl::pair of integers: "(", a, ", ", b, ")".
print(v) ==
  CASE v.kind = "int"  -> put_dec(v.v)
    [] v.kind = "str"   -> puts(v.s)
    [] v.kind = "sv"    -> v.s
    [] v.kind = "arr"   ->
         <<"[">> \o FlattenSeq([i \in 1..Len(v.e) |->
                       put_dec(v.e[i]) \o (IF i < Len(v.e) THEN puts(<<",", " ">>) ELSE <<>>)])
                 \o <<"]">>
    [] v.kind = "pair"  -> <<"(">> \o put_dec(v.a) \o puts(<<",", " ">>) \o put_dec(v.b) \o <<")">>

\* route(): an integral argument gets the spec's prefix and padded digits;
\* a pointer ([kind |-> "ptr", v]) its upper-case hex digits, padded, with
\* no prefix; every other kind is printed and the spec ignored.
route(v, fs) ==
  CASE v.kind = "int" /\ fs.type \in {"x", "X"} ->
         (IF fs.alternate THEN <<"0", fs.type>> ELSE <<>>)
           \o print_padded(make_hex_string(v.v, fs.type = "x"), fs.width, fs.zero_pad)
    [] v.kind = "int" /\ fs.type = "b" ->
         (IF fs.alternate THEN <<"0", "b">> ELSE <<>>)
           \o print_padded(make_bin_string(v.v), fs.width, fs.zero_pad)
    [] v.kind = "int" -> print_padded(make_dec_string(v.v), fs.width, fs.zero_pad)
    [] v.kind = "ptr" -> print_padded(make_hex_string(v.v, FALSE), fs.width, fs.zero_pad)
    [] OTHER -> print(v)

-----------------------------------------------------------------------------
(* printf(fmt, value, rest...)                                            *)

VARIABLES
  fmt0, args0,   \* the call's arguments
  p,             \* the rest of fmt the loop has not consumed
  rest,          \* the arguments not yet substituted
  out,           \* characters written to the sink
  rendered,      \* ghost: [arg, spec, text] of each substitution, in order
  done           \* the call has returned

vars == <<fmt0, args0, p, rest, out, rendered, done>>

Init ==
  /\ \E c \in Cases : fmt0 = c[1] /\ args0 = c[2]
  /\ p = fmt0 /\ rest = args0
  /\ out = <<>> /\ rendered = <<>> /\ done = FALSE

Loop == ~done /\ rest # <<>> /\ p # <<>>
IsEscape == Len(p) >= 2 /\ p[1] = "{" /\ p[2] = "{"

\* p[0] == '{' && p[1] == '{': one '{' out.
Escape ==
  /\ Loop /\ IsEscape
  /\ out' = Append(out, "{") /\ p' = Tail(Tail(p))
  /\ UNCHANGED <<fmt0, args0, rest, rendered, done>>

\* '{': the spec runs to the next '}' or the end; the value is printed
\* with it and printf recurses on what follows with the other arguments.
Substitute ==
  /\ Loop /\ p[1] = "{" /\ ~IsEscape
  /\ LET body  == Tail(p)
         close == SelectInSeq(body, LAMBDA c : c = "}")
         spec  == IF close = 0 THEN body ELSE SubSeq(body, 1, close - 1)
         after == IF close = 0 THEN <<>> ELSE SubSeq(body, close + 1, Len(body))
         text  == route(Head(rest), parse_spec(spec))
     IN  /\ out' = out \o text
         /\ p' = after /\ rest' = Tail(rest)
         /\ rendered' = Append(rendered, [arg |-> Head(rest), spec |-> spec,
                                          text |-> text])
  /\ UNCHANGED <<fmt0, args0, done>>

\* Any other character; '\n' is preceded by '\r'.
Literal ==
  /\ Loop /\ p[1] # "{"
  /\ out' = out \o puts(<<p[1]>>) /\ p' = Tail(p)
  /\ UNCHANGED <<fmt0, args0, rest, rendered, done>>

\* The loop ends at the end of fmt with arguments left: they are dropped.
ArgsLeft ==
  /\ ~done /\ rest # <<>> /\ p = <<>>
  /\ done' = TRUE
  /\ UNCHANGED <<fmt0, args0, p, rest, out, rendered>>

\* printf(const char*): no argument left, the rest is written by puts.
PutsRest ==
  /\ ~done /\ rest = <<>>
  /\ out' = out \o puts(p) /\ p' = <<>> /\ done' = TRUE
  /\ UNCHANGED <<fmt0, args0, rest, rendered>>

Returned == done /\ UNCHANGED vars

Next == Escape \/ Substitute \/ Literal \/ ArgsLeft \/ PutsRest \/ Returned

Spec == Init /\ [][Next]_vars

-----------------------------------------------------------------------------
(* Reference rendering: digits by place value, the spec by its grammar    *)
(* :? #? 0? width? type?                                                   *)

\* The number of base-b digits of v, and the digits by place value.
RefLen(v, b) == CHOOSE n \in 1..64 : v \div (b ^ (n - 1)) < b
RefDigits(v, b, table) ==
  [i \in 1..RefLen(v, b) |-> table[((v \div (b ^ (RefLen(v, b) - i))) % b) + 1]]

RefSpec(spec) ==
  LET s1 == IF spec # <<>> /\ Head(spec) = ":" THEN Tail(spec) ELSE spec
      alt == s1 # <<>> /\ Head(s1) = "#"
      s2 == IF alt THEN Tail(s1) ELSE s1
      zp == s2 # <<>> /\ Head(s2) = "0"
      s3 == IF zp THEN Tail(s2) ELSE s2
      n  == CHOOSE k \in 0..Len(s3) :
              /\ \A j \in 1..k : s3[j] \in Digits
              /\ k = Len(s3) \/ s3[k + 1] \notin Digits
      w  == FoldLeft(LAMBDA acc, c : 10 * acc + DigitVal(c), 0, SubSeq(s3, 1, n))
  IN  [alternate |-> alt, zero_pad |-> zp, width |-> w,
       type |-> IF n < Len(s3) THEN s3[n + 1] ELSE ""]

RefRenderInt(v, spec) ==
  LET fs     == RefSpec(spec)
      base   == CASE fs.type \in {"x", "X"} -> 16 [] fs.type = "b" -> 2 [] OTHER -> 10
      table  == IF fs.type = "x" THEN Lower ELSE Upper
      digits == RefDigits(v, base, table)
      prefix == IF fs.alternate /\ base # 10 THEN <<"0", IF base = 2 THEN "b" ELSE fs.type>>
                ELSE <<>>
      fill   == IF fs.zero_pad THEN "0" ELSE " "
  IN  prefix \o [i \in 1..(fs.width - Len(digits)) |-> fill] \o digits

\* Text on the sink: each line break is "\r\n".
RefLine(s) == FoldLeft(LAMBDA acc, c : acc \o (IF c = "\n" THEN <<"\r", "\n">> ELSE <<c>>), <<>>, s)
RefDec(n) == RefDigits(n, 10, Upper)

\* A string is its text, an array its decimal elements in brackets
\* separated by ", ", a pair its two decimal members in parentheses.
RefRender(v, spec) ==
  CASE v.kind = "int" -> RefRenderInt(v.v, spec)
         [] v.kind \in {"str", "sv"} -> RefLine(v.s)
         [] v.kind = "arr" ->
              <<"[">> \o FoldLeft(LAMBDA acc, n : IF acc = <<>> THEN RefDec(n)
                                                 ELSE acc \o <<",", " ">> \o RefDec(n),
                                 <<>>, v.e) \o <<"]">>
         [] v.kind = "pair" -> <<"(">> \o RefDec(v.a) \o <<",", " ">> \o RefDec(v.b) \o <<")">>

\* The i-th placeholder of the format renders the i-th argument.  An
\* integer's digits denote the value in the base the spec's type selects,
\* without leading zeros, padded with the fill character to the width,
\* after the 0x / 0X / 0b prefix when '#' is given; a string, an array or
\* a pair is written out whole, whatever the spec.
PlaceholdersRenderArgs ==
  \A i \in 1..Len(rendered) :
    /\ rendered[i].arg = args0[i]
    /\ rendered[i].text = RefRender(rendered[i].arg, rendered[i].spec)

\* The whole output of a call whose placeholders match its arguments:
\* "{{" is one '{' wherever it stands, "\n" is "\r\n", and each "{spec}"
\* is its argument rendered.
RECURSIVE RefOut(_, _)
RefOut(f, as) ==
  IF f = <<>> THEN <<>>
  ELSE IF Len(f) >= 2 /\ f[1] = "{" /\ f[2] = "{" THEN <<"{">> \o RefOut(Tail(Tail(f)), as)
  ELSE IF f[1] = "{" /\ as # <<>>
  THEN LET close == SelectInSeq(Tail(f), LAMBDA c : c = "}")
           spec  == IF close = 0 THEN Tail(f) ELSE SubSeq(Tail(f), 1, close - 1)
           after == IF close = 0 THEN <<>> ELSE SubSeq(Tail(f), close + 1, Len(Tail(f)))
       IN  RefRender(Head(as), spec) \o RefOut(after, Tail(as))
  ELSE puts(<<f[1]>>) \o RefOut(Tail(f), as)

OutputAsDocumented == done => out = RefOut(fmt0, args0)

====
