----------------------------- MODULE MC_Format -----------------------------
(* Calls of printf to check: the format strings of kpanic and the IDT     *)
(* debug output, and the corner cases of the scanner.                      *)
EXTENDS Format

\* An integral argument.
I(n) == [kind |-> "int", v |-> n]

\* Calls whose arguments are all integral, written as plain integers.
MCIntCases ==
  { \* "{:#x}\n" with 255
    << <<"{", ":", "#", "x", "}", "\n">>, <<255>> >>,
    \* "R={:#016x}" as in the register dump, with 4096
    << <<"R", "=", "{", ":", "#", "0", "1", "6", "x", "}">>, <<4096>> >>,
    \* "{{{:08b}}}": an escape, binary padded to 8, then "}}"
    << <<"{", "{", "{", ":", "0", "8", "b", "}", "}", "}">>, <<5>> >>,
    \* "{}{:X}" with 0 and 48879
    << <<"{", "}", "{", ":", "X", "}">>, <<0, 48879>> >>,
    \* "{:5" whose spec is never closed
    << <<"{", ":", "5">>, <<42>> >>,
    \* "{} {{": an escape after the last placeholder
    << <<"{", "}", " ", "{", "{">>, <<7>> >>,
    \* "a{}\n" with an argument too many
    << <<"a", "{", "}", "\n">>, <<1, 2>> >>,
    \* "{}{}" with an argument too few
    << <<"{", "}", "{", "}">>, <<3>> >>,
    \* "{:#b}" with 0, and "{:010}" with 2^31 - 1
    << <<"{", ":", "#", "b", "}">>, <<0>> >>,
    << <<"{", ":", "0", "1", "0", "}">>, <<2147483647>> >>,
    \* "IDT: vector {:#02x}\n" with 14, and a plain message without arguments
    << <<"v", " ", "{", ":", "#", "0", "2", "x", "}", "\n">>, <<14>> >>,
    \* "RAX={:#016x} RBX={:#016x}\n" from the register dump
    << <<"R", "A", "X", "=", "{", ":", "#", "0", "1", "6", "x", "}", " ", "R", "B", "X", "=", "{", ":", "#", "0", "1", "6", "x", "}", "\n">>,
       <<305419896, 65535>> >>,
    \* "Entry {}: base={:#x} type={}\n" from the allocator's debug output
    << <<"E", "n", "t", "r", "y", " ", "{", "}", ":", " ", "b", "a", "s", "e", "=", "{", ":", "#", "x", "}", " ", "t", "y", "p", "e", "=", "{", "}", "\n">>,
       <<2, 1048576, 1>> >>,
    \* "Loading IDT @ {:#016x}, limit={} bytes\n" from IDT init
    << <<"L", "o", "a", "d", "i", "n", "g", " ", "I", "D", "T", " ", "@", " ", "{", ":", "#", "0", "1", "6", "x", "}", ",", " ", "l", "i", "m", "i", "t", "=", "{", "}", " ", "b", "y", "t", "e", "s", "\n">>,
       <<4096, 4095>> >>,
    << <<"h", "{", "{", "\n">>, <<>> >> }

\* Calls with string, string_view, array and pair arguments.
MCOtherCases ==
  {     \* defaultInterruptHandler's "Unhandled CPU Exception {:#02x}: {}" with
    \* vector 14 and exception_names[14].data()
    << <<"U", "n", "h", "a", "n", "d", "l", "e", "d", " ", "C", "P", "U", " ", "E", "x", "c", "e", "p", "t", "i", "o", "n", " ", "{", ":", "#", "0", "2", "x", "}", ":", " ", "{", "}">>,
       <<I(14), [kind |-> "str", s |-> <<"P", "a", "g", "e", " ", "F", "a", "u", "l", "t">>]>> >>,
    \* "{:08x}|{}|{}" with a string_view, an array of three and a pair
    << <<"{", ":", "x", "}", "|", "{", "}", "|", "{", "}">>,
       <<[kind |-> "sv", s |-> <<"t", "s", "s">>],
         [kind |-> "arr", e |-> <<1, 20, 300>>],
         [kind |-> "pair", a |-> 0, b |-> 65535]>> >>,
    \* a string with a line break, then "{}" with an empty array
    << <<"{", "}", "{", "}">>,
       <<[kind |-> "str", s |-> <<"o", "k", "\n">>], [kind |-> "arr", e |-> <<>>]>> >> }

MCCases ==
  {<<c[1], [i \in 1..Len(c[2]) |-> I(c[2][i])]>> : c \in MCIntCases} \cup MCOtherCases
====
