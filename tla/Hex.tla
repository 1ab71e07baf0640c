-------------------------------- MODULE Hex --------------------------------
(***************************************************************************)
(* Hexadecimal texts and what the program's parsers read from them: the    *)
(* hex Deserialize of Address and Word (crates/fact-model/src/             *)
(* primitives.rs), the string attributes of predicates (crates/matcher/    *)
(* src/predicate.rs) and the raw numbers and payloads of a trace document  *)
(* (crates/ingestion/src/hex_util.rs).                                     *)
(*                                                                         *)
(* A text is a sequence of one-character strings, a value a sequence of    *)
(* bytes.                                                                  *)
(***************************************************************************)
EXTENDS Integers, Sequences

CONSTANT Malformed  \* what a text that is refused yields: no bytes, no number

LowerDigits == <<"0", "1", "2", "3", "4", "5", "6", "7",
                 "8", "9", "a", "b", "c", "d", "e", "f">>
UpperDigits == <<"A", "B", "C", "D", "E", "F">>

(* hex_digit, and char::to_digit(16). *)
HexDigit == {LowerDigits[i] : i \in 1 .. 16} \union {UpperDigits[i] : i \in 1 .. 6}
ValueOfDigit ==
    [c \in HexDigit |-> IF \E i \in 1 .. 6 : UpperDigits[i] = c
                        THEN 9 + (CHOOSE i \in 1 .. 6 : UpperDigits[i] = c)
                        ELSE (CHOOSE i \in 1 .. 16 : LowerDigits[i] = c) - 1]

(* strip_prefix("0x").unwrap_or(whole): once, and in lower case only. *)
Digits(text) ==
    IF Len(text) >= 2 /\ text[1] = "0" /\ text[2] = "x"
    THEN SubSeq(text, 3, Len(text)) ELSE text

AllHex(digits) == \A i \in 1 .. Len(digits) : digits[i] \in HexDigit

(* Two digits at a time, high nibble first. *)
Bytes(digits) ==
    [i \in 1 .. Len(digits) \div 2 |->
        16 * ValueOfDigit[digits[2 * i - 1]] + ValueOfDigit[digits[2 * i]]]

(* HexBytesVisitor, parse_hex_word, parse_hex_selector, parse_address: exactly
   2 * width digits after the optional prefix. *)
FixedBytes(text, width) ==
    IF Len(Digits(text)) = 2 * width /\ AllHex(Digits(text))
    THEN Bytes(Digits(text)) ELSE Malformed

(* parse_hex_bytes: any even number of digits, none at all included. *)
AnyBytes(text) ==
    IF Len(Digits(text)) % 2 = 0 /\ AllHex(Digits(text))
    THEN Bytes(Digits(text)) ELSE Malformed

(* parse_hex_u64 and parse_hex_u128, for a type that ends at max: what
   from_str_radix reads, which may start with a plus sign but needs a digit. *)
Unsigned(text, max) ==
    LET digits == Digits(text)
        magnitude == IF digits # <<>> /\ digits[1] = "+"
                     THEN Tail(digits) ELSE digits
        value[n \in 0 .. Len(magnitude)] ==
            IF n = 0 THEN 0
            ELSE 16 * value[n - 1] + ValueOfDigit[magnitude[n]]
    IN  IF magnitude = <<>> \/ ~AllHex(magnitude) THEN Malformed
        ELSE IF value[Len(magnitude)] > max THEN Malformed
        ELSE value[Len(magnitude)]

(* Display of Address and Word: the prefix and two lower-case digits a byte. *)
Display(bytes) ==
    <<"0", "x">> \o
    [i \in 1 .. 2 * Len(bytes) |->
        LowerDigits[1 + (IF i % 2 = 1 THEN bytes[(i + 1) \div 2] \div 16
                         ELSE bytes[i \div 2] % 16)]]
=============================================================================
