----------------------------- MODULE ParseAddress -----------------------------
(***************************************************************************)
(* The unit address given to n2pkvna_open, such as "0547:,2/1": its parser *)
(* (n2pkvna_parse_address.c) and the filter it becomes for the USB devices *)
(* found (n2pkvna_open.c).                                                 *)
(*                                                                         *)
(* The scanner's tokens are the model's atoms: the words, the separators,  *)
(* the comma, and "?" for a character the scanner rejects.  A word is what *)
(* decode_hex16 and decode_int8 make of it.  One step of the model is one  *)
(* turn of the parser's outer or inner loop.                               *)
(***************************************************************************)
EXTENDS Integers, Sequences

CONSTANTS
    Word,     \* words
    Hex,      \* what decode_hex16 makes of each, Bad if it refuses it
    Dec,      \* what decode_int8 makes of each
    Spelling, \* the strings given, as sequences of tokens
    Usb       \* the USB devices, by their descriptors and places

VARIABLES
    given,    \* a unit address was given
    input,    \* that address
    tokens,   \* what is left to scan: the current token, the look-ahead, ...
    address,  \* *adrp
    pc,       \* which loop the parser is in, or how it returned
    let       \* adripp_vector: the devices let through

vars == <<given, input, tokens, address, pc, let>>

Bad == -1
UINT8_MAX == 255
UINT16_MAX == 65535
Uint8 == 0..UINT8_MAX
Uint16 == 0..UINT16_MAX
Separator == {":", ".", "/"}
Token == Word \cup Separator \cup {",", "?"}
Field == {"vendor", "product", "bus", "device", "port"}
Address == [Field -> Uint16]
Unspecified == [f \in Field |-> 0]

ASSUME WordAssumption ==
    /\ Word \cap (Separator \cup {",", "?", "end"}) = {}
    /\ Hex \in [Word -> Uint16 \cup {Bad}]
    /\ Dec \in [Word -> Uint8 \cup {Bad}]
ASSUME SpellingAssumption == Spelling \subseteq Seq(Token)
ASSUME UsbAssumption == Usb \subseteq Address

Decode(field, word) ==
    IF field \in {"vendor", "product"} THEN Hex[word] ELSE Dec[word]

-----------------------------------------------------------------------------
(***************************************************************************)
(* Scanner.  It does not move past the end or an error.                    *)
(***************************************************************************)
Current(ts) == IF ts = <<>> THEN "end" ELSE Head(ts)
Scan(ts) == IF Current(ts) \in {"end", "?"} THEN ts ELSE Tail(ts)
LookAhead(ts) == Current(Scan(ts))

HeadField(separator) == IF separator = ":" THEN "vendor" ELSE "bus"
SuffixField(separator) ==
    CASE separator = ":" -> "product"
      [] separator = "." -> "device"
      [] separator = "/" -> "port"

\* Mutant: without the special case of a doubled separator.
AfterHeadDoubled(ts) ==
    LET rest == Scan(ts)
    IN  IF LookAhead(rest) \in Word THEN rest ELSE Scan(rest)

\* A separator that has no word after it belongs to the word before it,
\* unless it is doubled; else it begins the first suffix.
AfterHead(ts) ==
    LET rest == Scan(ts)
    IN  IF LookAhead(rest) \in Word \cup {Current(rest)} THEN rest ELSE Scan(rest)

-----------------------------------------------------------------------------
Init ==
    /\ \/ given = TRUE /\ input \in Spelling /\ pc = "term"
       \/ given = FALSE /\ input = <<>> /\ pc = "accepted"
    /\ tokens = input
    /\ address = Unspecified
    /\ let = {}

\* A vendor or a bus, and what follows it.
HeadReads ==
    /\ Current(tokens) \in Word /\ LookAhead(tokens) \in Separator
    /\ Decode(HeadField(LookAhead(tokens)), Current(tokens)) # Bad
Term ==
    /\ pc = "term" /\ HeadReads
    /\ LET field == HeadField(LookAhead(tokens))
       IN  address' = [address EXCEPT ![field] = Decode(field, Current(tokens))]
    /\ tokens' = AfterHead(tokens)
    /\ pc' = "suffix"
    /\ UNCHANGED <<given, input, let>>

\* A term that begins with a suffix.
BareTerm ==
    /\ pc = "term"
    /\ Current(tokens) \in Separator
    /\ pc' = "suffix"
    /\ UNCHANGED <<given, input, tokens, address, let>>

\* One turn of the inner loop.
SuffixReads ==
    /\ Current(tokens) \in Separator /\ LookAhead(tokens) \in Word
    /\ Decode(SuffixField(Current(tokens)), LookAhead(tokens)) # Bad
Suffix ==
    /\ pc = "suffix" /\ SuffixReads
    /\ LET field == SuffixField(Current(tokens))
       IN  address' = [address EXCEPT ![field] = Decode(field, LookAhead(tokens))]
    /\ tokens' = Scan(Scan(tokens))
    /\ UNCHANGED <<given, input, pc, let>>

NextTerm ==
    /\ pc = "suffix" /\ Current(tokens) = ","
    /\ tokens' = Scan(tokens)
    /\ pc' = "term"
    /\ UNCHANGED <<given, input, address, let>>

Return ==
    /\ pc = "suffix" /\ Current(tokens) = "end"
    /\ pc' = "accepted"
    /\ UNCHANGED <<given, input, tokens, address, let>>

\* EINVAL or EDOM; n2pkvna_open returns NULL.
Refuse ==
    /\ \/ pc = "term" /\ Current(tokens) \notin Separator /\ ~HeadReads
       \/ pc = "suffix" /\ Current(tokens) \notin {",", "end"} /\ ~SuffixReads
    /\ pc' = "refused"
    /\ UNCHANGED <<given, input, tokens, address, let>>

(***************************************************************************)
(* The filter of n2pkvna_open.  Without a vendor it lets through only that *)
(* of the N2PK VNA, and without a product only the models known.           *)
(***************************************************************************)
DefaultVendor == 1351                      \* 0x0547
KnownProduct == {4109, 4107, 4105, 4101}   \* 0x100d, 0x100b, 0x1009, 0x1005

Passes(adr, d) ==
    /\ IF adr["vendor"] # 0 THEN d["vendor"] = adr["vendor"]
       ELSE d["vendor"] = DefaultVendor
    /\ IF adr["product"] # 0 THEN d["product"] = adr["product"]
       ELSE adr["vendor"] = 0 => d["product"] \in KnownProduct
    /\ \A f \in {"bus", "port", "device"} : adr[f] # 0 => d[f] = adr[f]

Filter ==
    /\ pc = "accepted"
    /\ let' = {d \in Usb : Passes(address, d)}
    /\ pc' = "filtered"
    /\ UNCHANGED <<given, input, tokens, address>>

Next ==
    Term \/ BareTerm \/ Suffix \/ NextTerm \/ Return \/ Refuse \/ Filter

Spec == Init /\ [][Next]_vars

-----------------------------------------------------------------------------
(***************************************************************************)
(* What an address means, stated without a parser (the grammar at line 175 *)
(* of n2pkvna_parse_address.c, and n2pkvna.3): cut it at its commas; every *)
(* piece is a vendor or a bus, with or without its separator, then any     *)
(* number of suffixes, the first of which does not repeat that separator.  *)
(***************************************************************************)
Comma(i) == i \in 1..Len(input) /\ input[i] = ","

\* The piece that begins at b ends at e.
Starts == {b \in 1..(Len(input) + 1) : b = 1 \/ Comma(b - 1)}
EndsAt(b, e) ==
    /\ e = Len(input) \/ Comma(e + 1)
    /\ \A i \in b..e : ~Comma(i)
End(b) == CHOOSE e \in (b - 1)..Len(input) : EndsAt(b, e)

\* The word at a position states the value of a field.
Statement(field, at) == [field |-> field, at |-> at]
Value(s) == Decode(s.field, input[s.at])

\* From position i to position j separators and words alternate.
IsSuffixes(i, j) ==
    /\ i <= j => input[i] \in Separator /\ input[j] \in Word
    /\ \A m \in i..(j - 1) :
           \/ input[m] \in Separator /\ input[m + 1] \in Word
           \/ input[m] \in Word /\ input[m + 1] \in Separator
SuffixesOf(i, j) ==
    {Statement(SuffixField(input[m - 1]), m) :
        m \in {m \in i..j : input[m] \in Word}}

HasHead(b, e) == b < e /\ input[b] \in Word /\ input[b + 1] \in Separator
HeadOf(b) == Statement(HeadField(input[b + 1]), b)

\* The readings of the piece that begins at b: sets of statements.
Readings(b) ==
    LET e == End(b)
        shared == IsSuffixes(b + 1, e)  \* the separator begins a suffix
        own == /\ IsSuffixes(b + 2, e)  \* the separator is the head's
               /\ b + 2 <= e => input[b + 2] # input[b + 1]
    IN  (IF b <= e /\ IsSuffixes(b, e) THEN {SuffixesOf(b, e)} ELSE {})
        \cup (IF HasHead(b, e) /\ shared
              THEN {{HeadOf(b)} \cup SuffixesOf(b + 1, e)} ELSE {})
        \cup (IF HasHead(b, e) /\ own
              THEN {{HeadOf(b)} \cup SuffixesOf(b + 2, e)} ELSE {})

Meaningful ==
    \A b \in Starts :
        \E r \in Readings(b) :
            Readings(b) = {r} /\ \A s \in r : Value(s) # Bad

\* All that the address states; of a field, the last holds.
Statements == UNION UNION {Readings(b) : b \in Starts}
Stated(field) ==
    LET of == {s \in Statements : s.field = field}
    IN  IF of = {} THEN 0
        ELSE Value(CHOOSE s \in of : \A t \in of : t.at <= s.at)

(***************************************************************************)
(* Exactly the addresses in which every piece has one reading are          *)
(* accepted, and they let through exactly the devices of which all that is *)
(* stated last is true, where nothing and zero stand for any bus, device   *)
(* or port, any product of a stated vendor, and otherwise for the VNAs     *)
(* known.  (_n2pkvna_parse_address, n2pkvna_open)                          *)
(***************************************************************************)
AddressIsMeant ==
    /\ pc = "refused" => given /\ ~Meaningful
    /\ pc = "filtered" =>
         /\ given => Meaningful
         /\ let = {d \in Usb :
                     /\ \A f \in Field : Stated(f) \in {0, d[f]}
                     /\ Stated("vendor") = 0 =>
                          /\ d["vendor"] = DefaultVendor
                          /\ Stated("product") = 0 => d["product"] \in KnownProduct}
===============================================================================
