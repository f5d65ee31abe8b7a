----------------------------- MODULE QuicHandshake -----------------------------
(***************************************************************************)
(* QUIC fingerprinting (core/src/modules/fingerprint/quic.ts and           *)
(* QUICFingerprinter.ts): the Initial packets of one client arrive in      *)
(* datagrams that the network reorders and repeats; their CRYPTO frames    *)
(* are put together until the ClientHello is whole, and the hello gives a  *)
(* fingerprint.                                                            *)
(*                                                                         *)
(* Bytes are their positions in the ClientHello.  Encryption is a packet   *)
(* that opens or does not; a hash is what is hashed.                       *)
(***************************************************************************)
EXTENDS Integers, Sequences, FiniteSets, FiniteSetsExt

CONSTANTS
  HelloLength,      \* bytes of the ClientHello, its header included
  Header,           \* bytes before its length is known (4)
  Packets,          \* the packets that may come, see below
  MaxCoalesced,     \* bound: packets of one datagram
  MaxDatagrams,     \* bound: datagrams that arrive
  Suites, Extensions, Params,   \* numbers a client's hellos draw from
  Sni, Alpn, Alps, GoogleVersion, KnownClient

\* A packet is [kind, frames]: an Initial with CRYPTO frames <<offset, length>>
\* (other frames are skipped), a garbled Initial (it is decrypted, and its frames
\* cannot be parsed), another long-header packet, a short-header packet, or a
\* broken one (its header cannot be parsed, or it is not decrypted).
Frames == {f \in (0..HelloLength) \X (1..HelloLength) : f[1] + f[2] <= HelloLength}

VARIABLES
  frames, packets,   \* of the QuicInitialAssembler
  seen,              \* history: the frames of the Initials that came
  heard,             \* history: seen, after the last datagram without an error
  assembled,         \* bytes of the ClientHello that add() returned, or 0
  datagrams,
  hello, other       \* two hellos of one client

assemblerVars == <<frames, packets, seen, heard, assembled, datagrams>>
quicVars == <<assemblerVars, hello, other>>

-----------------------------------------------------------------------------
(* Arrays *)

\* filter(): the entries that are not dropped.
Filtered(list, dropped) ==
  LET kept[i \in 0..Len(list)] ==
        IF i = 0 THEN <<>>
        ELSE IF list[i] \in dropped THEN kept[i - 1] ELSE Append(kept[i - 1], list[i])
  IN  kept[Len(list)]

\* sort() by key[x]: each entry comes after those that are not greater.
Inserted(sorted, x, key) ==
  LET after == Max({0} \cup {i \in DOMAIN sorted : key[sorted[i]] <= key[x]})
  IN  [i \in 1..(Len(sorted) + 1) |->
         IF i <= after THEN sorted[i] ELSE IF i = after + 1 THEN x ELSE sorted[i - 1]]
SortedBy(key, list) ==
  LET sorted[i \in 0..Len(list)] ==
        IF i = 0 THEN <<>> ELSE Inserted(sorted[i - 1], list[i], key)
  IN  sorted[Len(list)]

Offset == [f \in Frames |-> f[1]]
Number == [v \in Nat |-> v]

-----------------------------------------------------------------------------
(* Packets *)

\* decryptInitialPackets(): the Initials before the first short header; a
\* packet that is broken spoils its whole datagram.
Initials(datagram) ==
  {i \in DOMAIN datagram :
     /\ datagram[i].kind \in {"initial", "garbled", "broken"}
     /\ \A j \in 1..i : datagram[j].kind # "short"}
Decrypts(datagram) == \A i \in Initials(datagram) : datagram[i].kind # "broken"

\* The loop of add(): it counts each Initial, then keeps its frames; the first
\* garbled one ends it.
Garbled(datagram) == {i \in Initials(datagram) : datagram[i].kind = "garbled"}
CountedInitials(datagram) == {i \in Initials(datagram) : \A g \in Garbled(datagram) : i <= g}
ParsedInitials(datagram) == CountedInitials(datagram) \ Garbled(datagram)

\* cryptoFrames() of the Initials before that.
CryptoFrames(datagram) ==
  LET all[i \in 0..Len(datagram)] ==
        IF i = 0 THEN <<>>
        ELSE IF i \in ParsedInitials(datagram) THEN all[i - 1] \o datagram[i].frames
        ELSE all[i - 1]
  IN  all[Len(datagram)]

\* Mutant: a frame that starts where the last one ended is a gap.
TakenStrictly(next, f) ==
  IF f[1] >= next /\ next > 0 THEN next ELSE Max({next, f[1] + f[2]})

\* One step of the loop of reassembleClientHello(): a gap ends it, a frame with
\* nothing new is skipped.
Taken(next, f) == IF f[1] > next THEN next ELSE Max({next, f[1] + f[2]})

Stream(sorted) ==
  LET upto[i \in 0..Len(sorted)] ==
        IF i = 0 THEN 0 ELSE Taken(upto[i - 1], sorted[i])
  IN  upto[Len(sorted)]

\* reassembleClientHello(): the bytes of the whole message, or 0.
reassembleClientHello(all) ==
  LET stream == Stream(SortedBy(Offset, all))
  IN  IF stream >= Header /\ stream >= HelloLength THEN HelloLength ELSE 0

\* add() inside the try of fingerprintQuicDatagrams(), which returns the first
\* fingerprint it gets: a datagram that is not decrypted leaves no trace, one with
\* a garbled packet leaves the frames before it and throws before they are put
\* together.
AddDatagram(datagram) ==
  /\ assembled = 0 /\ datagrams < MaxDatagrams
  /\ datagrams' = datagrams + 1
  /\ IF Decrypts(datagram)
       THEN /\ frames' = frames \o CryptoFrames(datagram)
            /\ packets' = packets + Cardinality(CountedInitials(datagram))
            /\ seen' = seen \cup Range(CryptoFrames(datagram))
            /\ IF Garbled(datagram) = {}
                 THEN /\ assembled' = reassembleClientHello(frames')
                      /\ heard' = seen'
                 ELSE UNCHANGED <<assembled, heard>>
       ELSE UNCHANGED <<frames, packets, seen, heard, assembled>>
  /\ UNCHANGED <<hello, other>>

-----------------------------------------------------------------------------
(* Fingerprints of a hello [suites, extensions, params, sigs] *)

\* isGrease(): 0x0a0a, 0x1a1a, ... 0xfafa.
isGrease(v) == v \div 256 = v % 256 /\ v % 16 = 10

isGreaseTransportParameter(id) == id >= 27 /\ (id - 27) % 31 = 0

\* Mutant: GREASE extensions are counted.
WithGrease(numbers) == numbers

Greaseless(numbers) == Filtered(numbers, {v \in Range(numbers) : isGrease(v)})

\* ja4(): counts, then the ciphers and the extensions without SNI and ALPN,
\* each sorted, and the signature algorithms in the client's order.
ja4(h) ==
  LET ciphers == Greaseless(h.suites)
      exts == Greaseless(h.extensions)
  IN  [sni |-> Sni \in Range(h.extensions), ciphers |-> Min({Len(ciphers), 99}),
       extensions |-> Min({Len(exts), 99}), b |-> SortedBy(Number, ciphers),
       c |-> SortedBy(Number, Filtered(exts, {Sni, Alpn})),
       sigs |-> Greaseless(h.sigs)]

transportParameterFingerprint(params) ==
  SortedBy(Number,
           Filtered(params, {p \in Range(params) : isGreaseTransportParameter(p)}))

chromiumTraits(h) ==
  {trait \in {"google_version", "grease parameter", "ALPS", "grease"} :
     CASE trait = "google_version" -> GoogleVersion \in Range(h.params)
       [] trait = "grease parameter" ->
            \E p \in Range(h.params) : isGreaseTransportParameter(p)
       [] trait = "ALPS" -> Alps \in Range(h.extensions)
       [] OTHER -> \E v \in Range(h.extensions) \cup Range(h.suites) : isGrease(v)}

\* finish(): the stack.
Stack(h) ==
  CASE ja4(h) = KnownClient -> "library"
    [] Cardinality(chromiumTraits(h)) >= 2 -> "chromium"
    [] OTHER -> "unknown"

\* analyze(): the signals for a user agent that claims to be browser.
QuicSignals(h, browser) ==
  (IF ja4(h) = KnownClient THEN {"quic.library_client"} ELSE {})
  \cup IF \/ browser = "chrome" /\ chromiumTraits(h) = {}
          \/ browser = "firefox" /\ Cardinality(chromiumTraits(h)) >= 2
         THEN {"quic.ua_mismatch"} ELSE {}

\* Packets hold frames; the numbers that the rules name are not GREASE.
ASSUME QuicAssumption ==
  /\ HelloLength \in Nat /\ Header \in 1..HelloLength
  /\ {MaxCoalesced, MaxDatagrams} \subseteq Nat \ {0}
  /\ \A p \in Packets : /\ p.kind \in {"initial", "garbled", "long", "short", "broken"}
                        /\ p.frames \in Seq(Frames)
  /\ \A numbers \in {Suites, Extensions, Params} :
       numbers \subseteq Nat /\ IsFiniteSet(numbers)
  /\ {Sni, Alpn, Alps} \subseteq Extensions
  /\ \A v \in {Sni, Alpn, Alps} : ~isGrease(v)
  /\ ~isGreaseTransportParameter(GoogleVersion)

Orders(numbers) == Bijection(1..Cardinality(numbers), numbers)

\* A client connects again: it draws other GREASE values for the places it
\* greases, and may send extensions and parameters in another order.
Regreased(numbers, g) == {IF isGrease(v) THEN g ELSE v : v \in numbers}
Reparametered(ids, g) ==
  {IF isGreaseTransportParameter(id) THEN g ELSE id : id \in ids}
Reconnect ==
  /\ \E g \in {v \in Extensions : isGrease(v)},
        q \in {id \in Params : isGreaseTransportParameter(id)} :
       \E e \in Orders(Regreased(Range(hello.extensions), g)),
          s \in Orders(Regreased(Range(hello.suites), g)),
          p \in Orders(Reparametered(Range(hello.params), q)) :
         other' = [hello EXCEPT !.extensions = e, !.suites = s, !.params = p]
  /\ UNCHANGED <<assemblerVars, hello>>

AssemblerNext ==
  \E n \in 1..MaxCoalesced : \E datagram \in [1..n -> Packets] : AddDatagram(datagram)

QuicInitWith(e, s, p) ==
  /\ frames = <<>> /\ packets = 0 /\ seen = {} /\ heard = {}
  /\ assembled = 0 /\ datagrams = 0
  /\ Cardinality({v \in e : isGrease(v)}) <= 1
  /\ Cardinality({v \in s : isGrease(v)}) <= 1
  /\ Cardinality({v \in p : isGreaseTransportParameter(v)}) <= 1
  /\ hello = [extensions |-> CHOOSE x \in Orders(e) : TRUE,
              suites |-> CHOOSE x \in Orders(s) : TRUE,
              params |-> CHOOSE x \in Orders(p) : TRUE, sigs |-> <<>>]
  /\ other = hello

\* Any hello, with at most one GREASE value in a list.
QuicInit ==
  \E e \in SUBSET Extensions, s \in SUBSET Suites, p \in SUBSET Params :
    QuicInitWith(e, s, p)

QuicNext == AssemblerNext \/ Reconnect

QuicSpec == QuicInit /\ [][QuicNext]_quicVars

QuicTypeOK ==
  /\ frames \in Seq(Frames) /\ packets \in 0..(MaxCoalesced * MaxDatagrams)
  /\ assembled \in {0, HelloLength} /\ datagrams \in 0..MaxDatagrams

-----------------------------------------------------------------------------
Bytes(f) == f[1]..(f[1] + f[2] - 1)

(***************************************************************************)
(* The ClientHello is found with exactly the datagram that completes it:   *)
(* when the frames that have come cover all of it, in whatever order they  *)
(* came, split, overlapping or repeated.  What came before a garbled       *)
(* packet of a datagram counts, from the next datagram without one: a      *)
(* hello that such a datagram completes is found then, not at once.        *)
(***************************************************************************)
FoundWhenWhole ==
  (assembled # 0) <=> (0..(HelloLength - 1) \subseteq UNION {Bytes(f) : f \in heard})

(***************************************************************************)
(* A client is recognised when it connects again, whatever it greases and  *)
(* in whatever order it sends its extensions and parameters.               *)
(***************************************************************************)
SameClientSameFingerprint ==
  /\ ja4(other) = ja4(hello)
  /\ transportParameterFingerprint(other.params)
       = transportParameterFingerprint(hello.params)
  /\ Stack(other) = Stack(hello)
  /\ \A browser \in {"chrome", "firefox"} :
       QuicSignals(other, browser) = QuicSignals(hello, browser)

(***************************************************************************)
(* Both at once: whatever the network and the client do, a handshake is    *)
(* read as soon as it is whole, and its client is recognised.              *)
(***************************************************************************)
HandshakesRead == FoundWhenWhole /\ SameClientSameFingerprint
=============================================================================
