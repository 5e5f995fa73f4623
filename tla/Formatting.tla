----------------------------- MODULE Formatting -----------------------------
(***************************************************************************)
(* vsnprintf() of lib/libc/stdio_core.c.  A format is read a piece at a    *)
(* time: parse_spec() is a state machine that takes flags, a width, a      *)
(* precision, a length modifier and a specifier, and whatever comes next   *)
(* in the format is nondeterministic.  At the specifier the argument is    *)
(* pulled and the field printed through fputc(), which counts what does    *)
(* not fit.  Floating-point conversions are left out, and of the arguments *)
(* only their values are kept, not their width.                            *)
(***************************************************************************)
EXTENDS Integers, Sequences, SequencesExt, FiniteSetsExt

CONSTANTS
    Specifiers,     \* among d u b o x X p c s %
    Flags,          \* subsets of {"left", "plus", "space", "alt", "zero"}
    Widths,         \* widths and precisions in the format or pulled from the
                    \* arguments for a '*', which may be negative
    Precisions,
    Values,         \* integer arguments
    Strings,        \* string arguments, as sequences of characters
    MaxSize         \* the largest buffer

\* A digit is its value, any other character its code.
SPACE == 32
PLUS == 43
MINUS == 45
PERCENT == 37
LETTER == 97
NUL == -1
OLD == -2       \* what the memory held before

WP_UNSPECIFIED == -1
POINTER_DIGITS == 8     \* sizeof(void *) * 2

VARIABLES
    state,      \* "text", "flags", "width", ..., "done"
    spec,       \* struct fmtspec
    bufsz,
    file,       \* write_ptr, and the memory from the buffer's start on
    text,       \* everything printed, whether it fitted or not
    field,      \* the last conversion: its argument and its characters
    result      \* what vsnprintf() returns

formatVars == <<state, spec, bufsz, file, text, field, result>>

NoSpec == [flags |-> {}, width |-> WP_UNSPECIFIED, precision |-> WP_UNSPECIFIED,
           length |-> "none"]
NoField == [spec |-> NoSpec, specifier |-> "", arg |-> 0, chars |-> <<>>]
Repeat(ch, n) == [i \in 1 .. (IF n > 0 THEN n ELSE 0) |-> ch]

\* file_init_string_io().  One cell behind the largest buffer is watched too.
Init ==
    /\ bufsz \in 0 .. MaxSize
    /\ file = [ptr |-> 0, mem |-> [i \in 0 .. MaxSize |-> OLD]]
    /\ state = "text" /\ spec = NoSpec /\ field = NoField
    /\ text = <<>> /\ result = 0

fputcUnbounded(f, ch) ==
    [ptr |-> f.ptr + 1,
     mem |-> [f.mem EXCEPT ![f.ptr] = IF f.ptr <= bufsz THEN ch ELSE @]]

\* fputc() on a string: the pointer advances either way, fflush does nothing.
fputc(f, ch) ==
    [ptr |-> f.ptr + 1,
     mem |-> IF f.ptr < bufsz THEN [f.mem EXCEPT ![f.ptr] = ch] ELSE f.mem]
fputs(f, s) == FoldLeft(fputc, f, s)

Writes(s) ==
    /\ file' = fputs(file, s)
    /\ text' = text \o s

-----------------------------------------------------------------------------
(* parse_spec() *)

\* A part of the format without '%'.
Literal ==
    /\ state = "text" /\ text = <<>>
    /\ Writes(<<LETTER>>)
    /\ UNCHANGED <<state, spec, bufsz, field, result>>

Percent ==
    /\ state = "text" /\ field = NoField
    /\ state' = "flags" /\ spec' = NoSpec
    /\ UNCHANGED <<bufsz, file, text, field, result>>

parse_flags ==
    /\ state = "flags"
    /\ \E flags \in Flags : spec' = [spec EXCEPT !.flags = flags]
    /\ state' = "width"
    /\ UNCHANGED <<bufsz, file, text, field, result>>

\* parse_width_precision(), then what vfprintf() does with a '*': a negative
\* width is the flag '-' and a width, a negative precision is none.
Width ==
    /\ state = "width"
    /\ \/ spec' = [spec EXCEPT !.width = 0]
       \/ \E w \in Widths :
             spec' = [spec EXCEPT !.width = IF w < 0 THEN -w ELSE w,
                                  !.flags = IF w < 0 THEN @ \cup {"left"} ELSE @]
    /\ state' = "precision"
    /\ UNCHANGED <<bufsz, file, text, field, result>>

Precision ==
    /\ state = "precision"
    /\ \/ UNCHANGED spec
       \/ \E p \in Precisions :
             spec' = [spec EXCEPT !.precision = IF p < 0 THEN WP_UNSPECIFIED ELSE p]
    /\ state' = "length"
    /\ UNCHANGED <<bufsz, file, text, field, result>>

\* parse_lenmod(): none, one for integers (hh, h, l, ll, j, z, t, w, wf) or
\* one for floating-point numbers (L, H, D, DD).
parse_lenmod ==
    /\ state = "length"
    /\ \E m \in {"none", "integer", "float"} : spec' = [spec EXCEPT !.length = m]
    /\ state' = "specifier"
    /\ UNCHANGED <<bufsz, file, text, field, result>>

-----------------------------------------------------------------------------
(* Fields *)

Has(flag) == flag \in spec.flags

\* inttodigits(): the digits of n, none for zero.
inttodigits(n, base) ==
    LET digits[k \in 0 .. n] ==
            IF k = 0 THEN <<>> ELSE Append(digits[k \div base], k % base)
    IN  digits[n]

\* The text between the prefix and the padding is printed up to a limit.
fmt_str_val(prefix, zeropad, val, limit) ==
    LET shown == SubSeq(val, 1, IF Len(val) < limit THEN Len(val) ELSE limit)
        body == prefix \o Repeat(0, zeropad) \o shown
        pad == Repeat(SPACE, spec.width - Len(body))
    IN  IF Has("left") THEN body \o pad ELSE pad \o body

signstr(val) ==
    IF val < 0 THEN <<MINUS>>
    ELSE IF Has("plus") THEN <<PLUS>>
    ELSE IF Has("space") THEN <<SPACE>> ELSE <<>>

\* The end of fmt_signed() and fmt_unsigned(): zeros up to the precision,
\* then, with the flag '0', up to the width.
ZeroPad(digits, precision) ==
    IF precision > Len(digits) THEN precision - Len(digits) ELSE 0
Number(prefix, digits, precision) ==
    LET zeros == ZeroPad(digits, precision)
        len == Len(prefix) + zeros + Len(digits)
    IN  fmt_str_val(prefix,
                    IF spec.width > len /\ Has("zero")
                    THEN zeros + (spec.width - len) ELSE zeros,
                    digits, Len(digits))

Prec(default) == IF spec.precision = WP_UNSPECIFIED THEN default ELSE spec.precision

fmt_signed(val) ==
    Number(signstr(val), inttodigits(IF val < 0 THEN -val ELSE val, 10), Prec(1))

Base(s) == CASE s = "b" -> 2 [] s = "o" -> 8 [] s \in {"x", "X"} -> 16 [] OTHER -> 10

fmt_unsigned(s, val) ==
    LET digits == inttodigits(val, Base(s))
        prefix == CASE ~Has("alt") \/ s = "u" -> <<>>
                    [] s = "o" -> IF ZeroPad(digits, Prec(1)) = 0 THEN <<0>> ELSE <<>>
                    [] OTHER -> <<0, LETTER>>
    IN  Number(prefix, digits, Prec(1))

fmt_pointer(val) ==
    Number(<<0, LETTER>>, inttodigits(val, 16), POINTER_DIGITS)

fmt_str(str) ==
    fmt_str_val(<<>>, 0, str, Prec(Len(str)))

\* A conversion vfprintf() takes, or the error it returns at once.
Convert(s, arg, chars) ==
    /\ state = "specifier" /\ s \in Specifiers
    /\ Writes(chars)
    /\ field' = [spec |-> spec, specifier |-> s, arg |-> arg, chars |-> chars]
    /\ state' = "text"
    /\ UNCHANGED <<spec, bufsz, result>>

Signed == \E v \in Values : spec.length # "float" /\ Convert("d", v, fmt_signed(v))
Unsigned ==
    \E s \in {"u", "b", "o", "x", "X"}, v \in {n \in Values : n >= 0} :
        spec.length # "float" /\ Convert(s, v, fmt_unsigned(s, v))
Pointer == \E v \in {n \in Values : n >= 0} : Convert("p", v, fmt_pointer(v))
Character ==
    spec.length = "none" /\ Convert("c", 0, fmt_str_val(<<>>, 0, <<LETTER>>, 1))
String ==
    \E str \in Strings : spec.length = "none" /\ Convert("s", Len(str), fmt_str(str))

\* '%' must follow the first one directly.
PercentSign ==
    /\ spec = [NoSpec EXCEPT !.width = 0]
    /\ Convert("%", 0, <<PERCENT>>)

Error ==
    /\ state = "specifier"
    /\ \/ spec.length = "float"
       \/ spec.length # "none" /\ Specifiers \cap {"c", "s"} # {}
       \/ spec # [NoSpec EXCEPT !.width = 0] /\ "%" \in Specifiers
    /\ state' = "done" /\ result' = -1
    /\ UNCHANGED <<spec, bufsz, file, text, field>>

\* The end of the format: vsnprintf() places the terminator.
Terminate ==
    /\ state = "text"
    /\ state' = "done" /\ result' = file.ptr
    /\ file' = IF bufsz = 0 THEN file
               ELSE [file EXCEPT !.mem[IF file.ptr < bufsz THEN file.ptr
                                       ELSE bufsz - 1] = NUL]
    /\ UNCHANGED <<spec, bufsz, text, field>>

Next ==
    \/ Literal \/ Percent \/ parse_flags \/ Width \/ Precision \/ parse_lenmod
    \/ Signed \/ Unsigned \/ Pointer \/ Character \/ String \/ PercentSign
    \/ Error \/ Terminate

Spec == Init /\ [][Next]_formatVars

-----------------------------------------------------------------------------
(* Property *)

Value(chars, base) ==
    FoldLeft(LAMBDA n, d : n * base + d, 0,
             SelectSeq(chars, LAMBDA ch : ch \in 0 .. 15))

\* A number can be read back: its digits are the argument's, its sign too; it
\* has the precision's digits and fills the width, on the side the flags say.
ReadsBack(f) ==
    LET n == Len(f.chars)
        digits == SelectSeq(f.chars, LAMBDA ch : ch \in 0 .. 15)
    IN  /\ n >= f.spec.width
        /\ f.specifier \in {"d", "u"} => Len(digits) >= f.spec.precision
        /\ f.specifier \in {"d", "u", "b", "o", "x", "X", "p"} =>
              /\ Value(f.chars, IF f.specifier = "p" THEN 16 ELSE Base(f.specifier))
                    = (IF f.arg < 0 THEN -f.arg ELSE f.arg)
              /\ (MINUS \in Range(f.chars)) = (f.arg < 0)
        /\ digits # <<>> /\ f.chars[n] = SPACE
              => "left" \in f.spec.flags /\ n = f.spec.width

\* stdio_core.c:68: "This allows snprintf to calculate the number of characters
\* that would be written, if there was enough space".  Whatever the size of
\* the buffer, vsnprintf() returns the length of the whole text; the buffer
\* holds as much of it as leaves room for a terminator, and a terminator;
\* nothing else in memory changes; and every number in it reads back.
SnprintfContract ==
    state = "done" /\ result >= 0 =>
        /\ result = Len(text)
        /\ \A i \in 0 .. MaxSize :
              file.mem[i] = IF i < Len(text) /\ i + 1 < bufsz THEN text[i + 1]
                            ELSE IF i + 1 = Min({Len(text) + 1, bufsz}) THEN NUL
                            ELSE OLD
        /\ field # NoField => ReadsBack(field)
=============================================================================
