----------------------------- MODULE MagnetLink -----------------------------
(* Magnet links as values: reading a URI, writing one, and the links that   *)
(* are made from a bare hash.                                               *)
(*                                                                          *)
(* A URI is the sequence of its query items, decoded, or <<>> when it is    *)
(* empty or of another scheme.  The sizes are parameters, so that every     *)
(* text can be checked at a small scale; the code has characters of 5 bits, *)
(* bytes of 8, hashes of 20 bytes and a buffer of 32 bits.                  *)
EXTENDS Integers, Sequences

CONSTANTS CharBits, ByteBits, HashBytes, BufferBits,
          DigitChar,            \* hexadecimal digits as characters in base 32
          DisplayNames, NoName, \* NoName is the empty string
          Splitting,           \* names that hold an "&" and a tracker
          Trackers, WellKnownTrackers,
          Lengths

ASSUME SizesAssumption ==
    /\ {CharBits, ByteBits, HashBytes, BufferBits} \subseteq Nat \ {0}
    /\ (HashBytes * ByteBits) % CharBits = 0
    /\ CharBits <= ByteBits
    /\ CharBits + ByteBits <= BufferBits
ASSUME NoNameAssumption == NoName \in DisplayNames
ASSUME TrackersAssumption == WellKnownTrackers \in Seq(Trackers)
ASSUME LengthsAssumption == Lengths \subseteq Int

Pow2[n \in Nat] == IF n = 0 THEN 1 ELSE 2 * Pow2[n - 1]

Byte == 0..Pow2[ByteBits] - 1

\* The half of a byte.
Digit == 0..Pow2[ByteBits \div 2] - 1

TextLength == (HashBytes * ByteBits) \div CharBits

(* Characters of a text in base 32, by their place in the alphabet.  The    *)
(* place of NUL is the alphabet's end, where strchr finds the terminator.   *)
Pad   == -1
Other == -2
Nul   == Pow2[CharBits]
Letters == 0..Pow2[CharBits] - 1
Chars == Letters \union {Pad, Other, Nul}

ASSUME DigitsAssumption ==
    /\ ByteBits % 2 = 0
    /\ DigitChar \in [Digit -> Letters \union {Other}]

----------------------------------------------------------------------------
(* decodeBase32 *)

\* (buffer << 5) | value: the value of NUL is one bit too long.
Pushed(buffer, value) ==
    LET shifted == buffer * Pow2[CharBits]
    IN  IF value = Nul /\ buffer % 2 = 1 THEN shifted ELSE shifted + value

\* A variant of Wrapped: a buffer of one byte.
WrappedByte(n) == n % Pow2[ByteBits]

\* The int of the buffer overflows; its low bits are right all the same.
Wrapped(n) == n % Pow2[BufferBits]

\* A variant of DecodeChar: bits that are taken out are counted again.
DecodeCharAgain(d, c) ==
    IF d.ended THEN d
    ELSE CASE c = Pad   -> [d EXCEPT !.ended = TRUE]
           [] c = Other -> [d EXCEPT !.ended = TRUE, !.result = <<>>]
           [] OTHER     ->
                LET buffer == Wrapped(Pushed(d.buffer, c))
                    bits   == d.bits + CharBits
                    out    == (buffer \div Pow2[bits - ByteBits]) % Pow2[ByteBits]
                IN  [d EXCEPT !.buffer = buffer, !.bits = bits,
                              !.result = IF bits < ByteBits THEN @ ELSE Append(@, out)]

DecodeChar(d, c) ==
    IF d.ended THEN d
    ELSE CASE c = Pad   -> [d EXCEPT !.ended = TRUE]
           [] c = Other -> [d EXCEPT !.ended = TRUE, !.result = <<>>]
           [] OTHER     ->
                LET buffer == Wrapped(Pushed(d.buffer, c))
                    bits   == d.bits + CharBits
                    rest   == bits - ByteBits
                IN  IF bits < ByteBits
                    THEN [d EXCEPT !.buffer = buffer, !.bits = bits]
                    ELSE [d EXCEPT !.buffer = buffer, !.bits = rest,
                            !.result = Append(@, (buffer \div Pow2[rest]) % Pow2[ByteBits])]

\* What is decoded after each character.
Decoding(text) ==
    LET decoded[i \in 0..Len(text)] ==
            IF i = 0
            THEN [buffer |-> 0, bits |-> 0, result |-> <<>>, ended |-> FALSE]
            ELSE DecodeChar(decoded[i - 1], text[i])
    IN  decoded

DecodeBase32(text) == Decoding(text)[Len(text)].result

----------------------------------------------------------------------------
(* Reading a URI.  A topic is a hash in hex (invalid digits are skipped, so *)
(* it may be short), a text in base 32, or anything else.  A text is what   *)
(* toUpper leaves of TextLength characters: a letter may become three.      *)

UpperTexts == {text \in Seq(Chars) : Len(text) \in TextLength..3 * TextLength}

HexHashes == {hash \in Seq(Byte) : Len(hash) <= HashBytes}

\* What the hash of a link may be.
Hashes == {hash \in Seq(Byte) : Len(hash) <= 3 * HashBytes}

AnyTopic == [form : {"hex"}, hash : HexHashes]
                \union [form : {"base32"}, text : UpperTexts]
                \union [form : {"other"}]

Items == [key : {"xt"}, topic : AnyTopic]
             \union [key : {"dn"}, name : DisplayNames]
             \union [key : {"tr"}, tracker : Trackers]
             \union [key : {"xl"}, length : Lengths]

AnyLink == [valid : BOOLEAN, hash : Hashes, name : DisplayNames,
            trackers : Seq(Trackers), length : Lengths \union {0}]

NoLink == [valid |-> FALSE, hash |-> <<>>, name |-> NoName, trackers |-> <<>>,
           length |-> 0]

HashAfter(link, topic) ==
    CASE topic.form = "hex"    -> topic.hash
      [] topic.form = "base32" -> DecodeBase32(topic.text)
      [] OTHER                 -> link.hash

\* size() == 20
IsHash(hash) == Len(hash) = HashBytes

\* A variant of ReadTopic: the length of the hash is not looked at.
ReadTopicAny(link, topic) ==
    [link EXCEPT !.hash = HashAfter(link, topic), !.valid = TRUE]

\* The xt branch.  Nothing makes a valid link invalid again.
ReadTopic(link, topic) ==
    [link EXCEPT !.hash = HashAfter(link, topic),
                 !.valid = @ \/ IsHash(HashAfter(link, topic))]

\* One query item; a length that is not a number is not among the items.
ReadItem(link, item) ==
    CASE item.key = "xt" -> ReadTopic(link, item.topic)
      [] item.key = "dn" -> [link EXCEPT !.name = item.name]
      [] item.key = "tr" -> [link EXCEPT !.trackers = Append(@, item.tracker)]
      [] item.key = "xl" -> [link EXCEPT !.length = item.length]

\* The link after each item.
Parsing(uri) ==
    LET parsed[i \in 0..Len(uri)] ==
            IF i = 0 THEN NoLink ELSE ReadItem(parsed[i - 1], uri[i])
    IN  parsed

ParseLink(uri) == Parsing(uri)[Len(uri)]

----------------------------------------------------------------------------
(* Writing a URI. *)

\* infoHashHex, as it is read in base 32.
HexDigits(hash) ==
    [i \in 1..2 * Len(hash) |->
        LET byte == hash[(i + 1) \div 2]
        IN  DigitChar[IF i % 2 = 1 THEN byte \div Pow2[ByteBits \div 2]
                                   ELSE byte % Pow2[ByteBits \div 2]]]

\* The digits of the hash are written whatever their number; the number then
\* tells a reader what they are.
HexTopic(hash) ==
    IF IsHash(hash) THEN [form |-> "hex", hash |-> hash]
    ELSE IF 2 * Len(hash) = TextLength
         THEN [form |-> "base32", text |-> HexDigits(hash)]
         ELSE [form |-> "other"]

\* A variant of NameItems: not encoded, a name is read as two items.
NameItemsRaw(name) ==
    CASE name = NoName       -> <<>>
      [] name \in Splitting -> <<[key |-> "dn", name |-> name],
                                 [key |-> "tr", tracker |-> name]>>
      [] OTHER               -> <<[key |-> "dn", name |-> name]>>

\* The name is percent-encoded, so it is read back as one item.
NameItems(name) == IF name = NoName THEN <<>> ELSE <<[key |-> "dn", name |-> name]>>

TrackerItems(trackers) ==
    [i \in DOMAIN trackers |-> [key |-> "tr", tracker |-> trackers[i]]]

LengthItems(length) ==
    IF length > 0 THEN <<[key |-> "xl", length |-> length]>> ELSE <<>>

ToUri(link) ==
    IF ~link.valid THEN <<>>
    ELSE <<[key |-> "xt", topic |-> HexTopic(link.hash)]>>
           \o NameItems(link.name)
           \o TrackerItems(link.trackers)
           \o LengthItems(link.length)

----------------------------------------------------------------------------
\* fromInfoHash, of a text of 40 characters; another gives NoLink.
FromInfoHash(hash) ==
    [NoLink EXCEPT !.hash = hash,
                   !.valid = IsHash(hash),
                   !.trackers = IF IsHash(hash) THEN WellKnownTrackers ELSE <<>>]

=============================================================================
