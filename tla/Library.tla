------------------------------ MODULE Library ------------------------------
(***************************************************************************)
(* The library of the kernel, a call at a time: what a caller asks for,    *)
(* and what comes of it.  No function of the library keeps a state of its  *)
(* own between calls, rand's seed apart, which is the call's argument.     *)
(***************************************************************************)
EXTENDS C99, Strtol, Strings, Random

CONSTANTS
    Directives,      \* the directives callers print with
    Sizes,           \* the sizes they read: value, base and unit
    Memory,          \* the memory the string functions find
    Counts,          \* the counts they are given
    Seeds,           \* the seeds of rand_r
    Answers          \* what getc returns

(* Memory is bytes in a row, a seed an unsigned int, and getc returns ints. *)
ASSUME LibraryAssumption ==
    /\ DOMAIN Memory \subseteq Nat /\ IsFiniteSet(DOMAIN Memory)
    /\ \A a, b \in DOMAIN Memory : a .. b \subseteq DOMAIN Memory
    /\ Memory \in [DOMAIN Memory -> 0 .. 255] /\ Counts \subseteq Int
    /\ Seeds \subseteq 0 .. LongMod - 1
    /\ Answers \subseteq Seq(Int)

VARIABLES call, outcome
vars == <<call, outcome>>

(* A directive between two characters, and a plain one behind it: what a   *)
(* directive must leave alone is the argument of the next.                 *)
Follower == 7
Format(d) == <<"<">> \o Spell(d) \o <<">", "%", "u">>

Numerals(z) ==
    (CASE z.base = 16 -> <<"0", "x">> [] z.base = 8 -> <<"0">> [] OTHER -> <<>>)
    \o Numeral(z.n, z.base, Max({1, Length(z.n, z.base)}), TRUE)

Apart(d, s, n) == d + n <= s \/ s + n <= d
Inside(s, n)   == s .. s + n - 1 \subseteq DOMAIN Memory
HasString(s)   == NULs(Memory, s) # {}

Calls ==
    [fn : {"vsprintf"}, directive : Directives]
    \cup [fn : {"ustrtoul"}, size : Sizes]
    \cup {c \in [fn : {"memcpy"}, d : DOMAIN Memory, s : DOMAIN Memory, n : Counts \cap Nat] :
             Inside(c.s, c.n) /\ Inside(c.d, c.n) /\ (Apart(c.d, c.s, c.n) \/ c.d < c.s)}
    \cup {c \in [fn : {"memset"}, s : DOMAIN Memory, c : {-1, 0, 65}, n : Counts \cap Nat] :
             Inside(c.s, c.n)}
    \cup {c \in [fn : {"strcpy"}, d : DOMAIN Memory, s : DOMAIN Memory] :
             /\ HasString(c.s) /\ Inside(c.d, strlen(Memory, c.s) + 1)
             /\ Apart(c.d, c.s, strlen(Memory, c.s) + 1)}
    \cup {c \in [fn : {"strnlen"}, s : DOMAIN Memory, n : Counts] : HasString(c.s)}
    \cup {c \in [fn : {"strncmp"}, s : DOMAIN Memory, t : DOMAIN Memory, n : Counts] :
             HasString(c.s) /\ HasString(c.t)}
    \cup {c \in [fn : {"strchr"}, s : DOMAIN Memory, c : {-56, 0, 1, 65}] : HasString(c.s)}
    \cup {c \in [fn : {"gets"}, s : DOMAIN Memory, answers : Answers] :
             Inside(c.s, Len(c.answers) + 2)}
    \cup [fn : {"rand"}, seed : Seeds]

Pending == [done |-> FALSE]
Is(fn) == call.fn = fn /\ outcome = Pending /\ UNCHANGED call
Yields(result) == outcome' = [done |-> TRUE, result |-> result]

do_vsprintf == Is("vsprintf") /\ LET d == call.directive
                                 IN  Yields(vsprintf(Format(d), Append(Words(d), Follower)))
do_ustrtoul == Is("ustrtoul") /\ Yields(ustrtoul(Numerals(call.size) \o call.size.unit, 1,
                                                IF call.size.base = 10 THEN 10 ELSE 0))
do_memcpy   == Is("memcpy")  /\ Yields(memcpy(Memory, call.d, call.s, call.n))
do_memset   == Is("memset")  /\ Yields(memset(Memory, call.s, call.c, call.n))
do_strcpy   == Is("strcpy")  /\ Yields(strcpy(Memory, call.d, call.s))
do_strnlen  == Is("strnlen") /\ Yields(strnlen(Memory, call.s, call.n))
do_strncmp  == Is("strncmp") /\ Yields(strncmp(Memory, call.s, call.t, call.n))
do_strchr   == Is("strchr")  /\ Yields(strchr(Memory, call.s, call.c))
do_gets     == Is("gets")    /\ Yields(gets(Memory, call.s, Len(call.answers), call.answers))
do_rand     == Is("rand")    /\ Yields(rand_r(call.seed))

Init == call \in Calls /\ outcome = Pending

Next ==
    \/ do_vsprintf \/ do_ustrtoul \/ do_memcpy \/ do_memset \/ do_strcpy
    \/ do_strnlen \/ do_strncmp \/ do_strchr \/ do_gets \/ do_rand

Spec == Init /\ [][Next]_vars

After(fn) == call.fn = fn /\ outcome # Pending

-----------------------------------------------------------------------------
(***************************************************************************)
(* Where it has no rules of its own, vsprintf prints what C99 says, for    *)
(* every way to spell the directive and at every boundary; what stands     *)
(* around the directive is untouched, the next one finds its argument, and *)
(* %n finds the number of characters before it (vsprintf.c:155-560).       *)
(***************************************************************************)
FollowsC99 ==
    After("vsprintf") /\ ~ OwnRules(call.directive) =>
        /\ outcome.result.text = <<"<">> \o Prescribed(call.directive) \o <<">", "7">>
        /\ outcome.result.counts = IF call.directive.conversion = <<"n">> THEN <<1>> ELSE <<>>

(***************************************************************************)
(* Whatever the flags, the width and the precision, what a number is       *)
(* printed as is read back as that number: decimals by atoi, and by strtol *)
(* where no plus is shown, octals, hexadecimals and pointers by strtoul in *)
(* their base, or in any when their prefix is shown; the reading ends      *)
(* where the number does.  Two exceptions are the code's: strtoul does not *)
(* know the prefix of %#X, and the accumulator of atoi does not hold the   *)
(* least value (vsprintf.c:155-245, strtol.c:3-35, atoi.c:1-16).           *)
(***************************************************************************)
ReadsBack ==
    After("vsprintf") => LET
        d     == call.directive
        conv  == d.conversion[1]
        text  == outcome.result.text
        first == Skip(text, 2, {" "})
        plus  == At(text, first) = "+"
        base  == IF conv = "p" THEN 16
                 ELSE IF Base(conv) # 10 /\ "SPECIAL" \in d.flags THEN 0 ELSE Base(conv)
        read  == strtol(text, first, base)
    IN  /\ conv \in {"d", "i"} /\ Value(d) > Signed(LongMod \div 2) =>
               atoi(SubSeq(text, 2, Len(text))) = Value(d)
        /\ conv \in Integers99 /\ ~ plus /\ ~ (conv = "X" /\ "SPECIAL" \in d.flags) =>
               Wrap(read.value) = Wrap(Value(d)) /\ At(text, read.end) \in {" ", ">"}
        /\ conv = "p" /\ d.argument # NULL => Wrap(read.value) = d.argument

(***************************************************************************)
(* How long a text gets is decided by its format alone, except for strings *)
(* without a precision: printk's buffer of 128 bytes, which vsprintf is    *)
(* not told of, suffices whatever the arguments are, if the fields of the  *)
(* format do (vsprintf.c:155-264, printk.c:46).                            *)
(***************************************************************************)
Room(d) ==
    LET digits == IF Base(d.conversion[1]) = 8 THEN Length(LongMod - 1, 8)
                  ELSE Length(LongMod - 1, 10)
        text   == CASE d.conversion[1] \in Integers99 \cup {"p"} ->
                         2 + Max({Precision(d), digits, PointerDigits})
                    [] d.conversion[1] = "s" /\ Precision(d) >= 0 -> Precision(d)
                    [] d.conversion[1] = "s" -> IF d.argument = NULL THEN 6 ELSE Len(Text[d.argument])
                    [] OTHER -> 1
    IN  Max({Width(d), text})

LengthBounded ==
    After("vsprintf") =>
        Len(outcome.result.text) <= 2 + Room(call.directive) +
            IF call.directive.qualifier = <<"l", "l">> THEN Length(LongMod - 1, 10) ELSE 1

(***************************************************************************)
(* A size is its number times a thousand (1024, here Kilo) to the power of *)
(* its unit, in the number's own base, and the reading takes an iB along   *)
(* (but no unit without one) (strtol.c:37-58).                             *)
(***************************************************************************)
SizesRead ==
    After("ustrtoul") => LET
        z == call.size
        k == IF z.unit = <<>> THEN 0
             ELSE CASE z.unit[1] = "G" -> 3 [] z.unit[1] = "M" -> 2
                    [] z.unit[1] \in {"K", "k"} -> 1 [] OTHER -> 0
    IN  /\ outcome.result.value = Signed(Wrap(z.n * Kilo ^ k))
        /\ outcome.result.end =
               1 + Len(Numerals(z)) + IF k > 0 /\ "i" \in ToSet(z.unit) THEN Len(z.unit) ELSE 0

Written(d, n, value(_)) ==
    outcome.result = [a \in DOMAIN Memory |-> IF a \in d .. d + n - 1 THEN value(a) ELSE Memory[a]]

StringAt(s) ==
    LET n == CHOOSE n \in 0 .. Cardinality(DOMAIN Memory) : Memory[s + n] = 0 /\ \A k \in 0 .. n - 1 : Memory[s + k] # 0
    IN  [k \in 1 .. n |-> Memory[s + k - 1]]
Start(s, n) == SubSeq(s, 1, Min({n, Len(s)}))
Before(u, v) == \E k \in 1 .. Len(v) :
    IsPrefix(SubSeq(v, 1, k - 1), u) /\ (Len(u) = k - 1 \/ u[k] < v[k])

(***************************************************************************)
(* memcpy moves every byte as it was before the call, also down over its   *)
(* own source, memset and strcpy write what they should, in words and the  *)
(* bytes that are left over, none of them writes a byte more, and the      *)
(* string functions stop at the NUL or at the count, whichever is first    *)
(* (string.c:1-100).                                                       *)
(***************************************************************************)
StringsExact ==
    /\ After("memcpy") => Written(call.d, call.n, LAMBDA a : Memory[call.s + (a - call.d)])
    /\ After("memset") => Written(call.s, call.n, LAMBDA a : call.c % 256)
    /\ After("strcpy") => Written(call.d, Len(StringAt(call.s)) + 1,
                                  LAMBDA a : Memory[call.s + (a - call.d)])
    /\ After("strnlen") =>
           outcome.result = Len(IF call.n < 0 THEN StringAt(call.s) ELSE Start(StringAt(call.s), call.n))
    /\ After("strncmp") =>
           LET u == Start(StringAt(call.s), call.n)
               v == Start(StringAt(call.t), call.n)
           IN  (outcome.result < 0 <=> Before(u, v)) /\ (outcome.result > 0 <=> Before(v, u))
    /\ After("strchr") =>
           LET u == Append(StringAt(call.s), 0)
               r == outcome.result - call.s + 1
           IN  IF call.c % 256 \in ToSet(u)
               THEN u[r] = call.c % 256 /\ call.c % 256 \notin ToSet(SubSeq(u, 1, r - 1))
               ELSE outcome.result = 0

(***************************************************************************)
(* gets reaches at most two cells behind the size it is given: with a      *)
(* newline among what getc returned the line ends there, in the buffer;    *)
(* without one the buffer is full, and exactly one of the two cells behind *)
(* it becomes the NUL (printk.c:9-29).                                     *)
(***************************************************************************)
GetsConfined ==
    After("gets") => LET
        n       == Len(call.answers)
        newline == {k \in 1 .. n : call.answers[k] = NEWLINE}
        last    == IF newline = {} THEN n ELSE Min(newline) - 1
        changed == {a \in DOMAIN Memory : outcome.result[a] # Memory[a]}
    IN  /\ \A k \in 1 .. last : outcome.result[call.s + k - 1] = call.answers[k] % 256
        /\ \E a \in call.s + last .. call.s + last + (IF newline = {} THEN 1 ELSE 0) :
               outcome.result[a] = 0 /\ changed \subseteq (call.s .. call.s + last - 1) \cup {a}

(***************************************************************************)
(* Whatever the seed, the ones above M and those that read as negative     *)
(* included, rand returns the generator's next value in 0 .. M - 1, with   *)
(* no product or difference outside int32_t on the way; and it does not    *)
(* get stuck at zero, unless it was seeded with a multiple of M, which     *)
(* srand does not refuse (rand.c:9-20).                                    *)
(***************************************************************************)
IsLehmer ==
    After("rand") =>
        /\ IsNext(call.seed, outcome.result)
        /\ NoOverflow(call.seed)
        /\ outcome.result = 0 => X(call.seed) % M = 0
=============================================================================
