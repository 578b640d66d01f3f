--------------------------- MODULE WebServerProofs ---------------------------
(* WebServer for every table, every set of clients and every set of        *)
(* requests, and for requests that break off anywhere.                     *)
EXTENDS WebServer, WellFoundedInduction, TLAPS

SeqFacts == INSTANCE SequenceTheorems

\* A set of natural numbers has a smallest one.
LEMMA SmallestOf ==
    ASSUME NEW S \in SUBSET Nat, S # {}
    PROVE  \E n \in S : \A k \in S : n <= k
<1>1. PICK n \in S : \A k \in S : ~(<<k, n>> \in OpToRel(<, Nat))
  BY NatLessThanWellFounded, WFMin
<1>2. \A k \in S : ~(k < n)
  BY <1>1 DEF OpToRel
<1> QED
  BY <1>2
-----------------------------------------------------------------------------
(* The pieces a request is sent in *)

Asked == Clean \cup Rough

\* The lines up to the blank one.
Top(r) == IF r.sized THEN 3 ELSE 2

Header(r) == IF r.sized THEN <<Line(r), Length(Len(r.body)), Blank>> ELSE <<Line(r), Blank>>

BodyText(r) == [i \in 1 .. Len(r.body) |-> Text(r.body[i])]

\* Sequences written one after the other.
LEMMA AppendOne ==
    ASSUME NEW S, NEW a \in S, NEW b \in S
    PROVE  Append(<<a>>, b) = <<a, b>>
<1>1. <<a>> \in Seq(S) /\ Len(<<a>>) = 1 /\ <<a>>[1] = a
  OBVIOUS
<1>2. <<a, b>> \in Seq(S) /\ Len(<<a, b>>) = 2 /\ <<a, b>>[1] = a /\ <<a, b>>[2] = b
  OBVIOUS
<1>3. /\ Append(<<a>>, b) \in Seq(S) /\ Len(Append(<<a>>, b)) = Len(<<a>>) + 1
      /\ \A i \in 1 .. Len(<<a>>) : Append(<<a>>, b)[i] = <<a>>[i]
      /\ Append(<<a>>, b)[Len(<<a>>) + 1] = b
  BY <1>1, SeqFacts!AppendProperties
<1>4. \A i \in 1 .. Len(Append(<<a>>, b)) : Append(<<a>>, b)[i] = <<a, b>>[i]
  BY <1>1, <1>2, <1>3
<1>5. Len(Append(<<a>>, b)) = Len(<<a, b>>)
  BY <1>1, <1>2, <1>3
<1> QED
  BY <1>2, <1>3, <1>4, <1>5, SeqFacts!SeqEqual

\* Two tokens and a third: the end of a header.
LEMMA AppendTwo ==
    ASSUME NEW S, NEW a \in S, NEW b \in S, NEW c \in S
    PROVE  Append(<<a, b>>, c) = <<a, b, c>>
<1>1. <<a, b>> \in Seq(S) /\ Len(<<a, b>>) = 2 /\ <<a, b>>[1] = a /\ <<a, b>>[2] = b
  OBVIOUS
<1>2. /\ <<a, b, c>> \in Seq(S) /\ Len(<<a, b, c>>) = 3
      /\ <<a, b, c>>[1] = a /\ <<a, b, c>>[2] = b /\ <<a, b, c>>[3] = c
  OBVIOUS
<1>3. /\ Append(<<a, b>>, c) \in Seq(S) /\ Len(Append(<<a, b>>, c)) = Len(<<a, b>>) + 1
      /\ \A i \in 1 .. Len(<<a, b>>) : Append(<<a, b>>, c)[i] = <<a, b>>[i]
      /\ Append(<<a, b>>, c)[Len(<<a, b>>) + 1] = c
  BY <1>1, SeqFacts!AppendProperties
<1>4. \A i \in 1 .. Len(Append(<<a, b>>, c)) : Append(<<a, b>>, c)[i] = <<a, b, c>>[i]
  BY <1>1, <1>2, <1>3
<1>5. Len(Append(<<a, b>>, c)) = Len(<<a, b, c>>)
  BY <1>1, <1>2, <1>3
<1> QED
  BY <1>2, <1>3, <1>4, <1>5, SeqFacts!SeqEqual

\* The tokens of a header, with the line of the length or without it.
LEMMA ShortConcat ==
    ASSUME NEW S, NEW a \in S, NEW b \in S, NEW c \in S
    PROVE  <<a>> \o <<b>> \o <<c>> = <<a, b, c>> /\ <<a>> \o <<>> \o <<c>> = <<a, c>>
<1>1. <<a>> \in Seq(S) /\ <<a, b>> \in Seq(S)
  OBVIOUS
<1>2. /\ <<a>> \o <<b>> = Append(<<a>>, b) /\ <<a>> \o <<c>> = Append(<<a>>, c)
      /\ <<a, b>> \o <<c>> = Append(<<a, b>>, c)
  BY <1>1, SeqFacts!AppendIsConcat
<1>3. <<a>> \o <<>> = <<a>>
  BY <1>1, SeqFacts!ConcatEmptySeq
<1>4. /\ Append(<<a>>, b) = <<a, b>> /\ Append(<<a>>, c) = <<a, c>>
      /\ Append(<<a, b>>, c) = <<a, b, c>>
  BY AppendOne, AppendTwo
<1> QED
  BY <1>2, <1>3, <1>4

\* What a request is made of.
LEMMA RequestTyped ==
    ASSUME NEW r \in Asked
    PROVE  /\ r.body \in Seq(Char) /\ Len(r.body) \in Nat /\ DOMAIN r.body = 1 .. Len(r.body)
           /\ r.sized \in BOOLEAN /\ r.version \in BOOLEAN
           /\ r.path \in StaticPath \cup DynamicPath
           /\ r.method \in {"GET", "PUT", "POST", "DELETE", "OTHER"}
<1>1. /\ r.body \in Seq(Char) /\ r.sized \in BOOLEAN /\ r.version \in BOOLEAN
      /\ r.path \in StaticPath \cup DynamicPath
      /\ r.method \in {"GET", "PUT", "POST", "DELETE", "OTHER"}
  BY WebAssumption DEF Asked
<1> QED
  BY <1>1

\* The header has two lines or three.
LEMMA HeaderTyped ==
    ASSUME NEW r \in Asked
    PROVE  /\ Header(r) \in Seq({Line(r), Length(Len(r.body)), Blank})
           /\ Len(Header(r)) = Top(r)
<1> DEFINE S == {Line(r), Length(Len(r.body)), Blank}
<1>1. r.sized \in BOOLEAN
  BY RequestTyped
<1>2. Line(r) \in S /\ Length(Len(r.body)) \in S /\ Blank \in S
  OBVIOUS
<1> HIDE DEF S
<1>3. CASE r.sized
  <2>1. Header(r) = <<Line(r), Length(Len(r.body)), Blank>> /\ Top(r) = 3
    BY <1>3 DEF Header, Top
  <2>2. Header(r) \in Seq(S) /\ Len(Header(r)) = Top(r)
    BY <1>2, <2>1
  <2> QED
    BY <2>2 DEF S
<1>4. CASE ~r.sized
  <2>1. Header(r) = <<Line(r), Blank>> /\ Top(r) = 2
    BY <1>4 DEF Header, Top
  <2>2. Header(r) \in Seq(S) /\ Len(Header(r)) = Top(r)
    BY <1>2, <2>1
  <2> QED
    BY <2>2 DEF S
<1> QED
  BY <1>1, <1>3, <1>4

\* A request is its header lines and then the characters of its body.
LEMMA TokensAre ==
    ASSUME NEW r \in Asked
    PROVE  /\ Tokens(r) = Header(r) \o BodyText(r)
           /\ Tokens(r) \in Seq(Token) /\ Len(Tokens(r)) = Top(r) + Len(r.body)
           /\ \A i \in 1 .. Top(r) : Tokens(r)[i] = Header(r)[i]
           /\ \A i \in 1 .. Len(r.body) : Tokens(r)[Top(r) + i] = Text(r.body[i])
<1> DEFINE S == {Line(r), Length(Len(r.body)), Blank} \cup {Text(r.body[i]) : i \in 1 .. Len(r.body)}
<1>1. /\ r.body \in Seq(Char) /\ Len(r.body) \in Nat /\ DOMAIN r.body = 1 .. Len(r.body)
      /\ r.sized \in BOOLEAN
  BY RequestTyped
<1>2. Header(r) \in Seq(S) /\ Len(Header(r)) = Top(r)
  <2>1. Header(r) \in Seq({Line(r), Length(Len(r.body)), Blank}) /\ Len(Header(r)) = Top(r)
    BY HeaderTyped
  <2> QED
    BY <2>1, SeqFacts!SeqMonotonic
<1>3. BodyText(r) \in [1 .. Len(r.body) -> S]
  BY <1>1 DEF BodyText
<1>4. BodyText(r) \in Seq(S) /\ Len(BodyText(r)) = Len(r.body)
  BY <1>1, <1>3
<1>5. <<Line(r)>> \o (IF r.sized THEN <<Length(Len(r.body))>> ELSE <<>>) \o <<Blank>> = Header(r)
  <2>1. \A a, b, c \in S : <<a>> \o <<b>> \o <<c>> = <<a, b, c>> /\ <<a>> \o <<>> \o <<c>> = <<a, c>>
    <3> HIDE DEF S
    <3> QED
      BY ShortConcat
  <2>2. Line(r) \in S /\ Length(Len(r.body)) \in S /\ Blank \in S
    OBVIOUS
  <2> HIDE DEF S
  <2>3. CASE r.sized
    BY <2>1, <2>2, <2>3 DEF Header
  <2>4. CASE ~r.sized
    BY <2>1, <2>2, <2>4 DEF Header
  <2> QED
    BY <2>3, <2>4
<1>6. Tokens(r) = Header(r) \o BodyText(r)
  BY <1>1, <1>5 DEF Tokens, BodyText
<1> HIDE DEF S
<1>7. /\ Tokens(r) \in Seq(S) /\ Len(Tokens(r)) = Top(r) + Len(r.body)
      /\ \A i \in 1 .. Top(r) + Len(r.body) :
            Tokens(r)[i] = IF i <= Top(r) THEN Header(r)[i] ELSE BodyText(r)[i - Top(r)]
  <2>1. /\ Header(r) \o BodyText(r) \in Seq(S)
        /\ Len(Header(r) \o BodyText(r)) = Len(Header(r)) + Len(BodyText(r))
        /\ \A i \in 1 .. Len(Header(r)) + Len(BodyText(r)) :
              (Header(r) \o BodyText(r))[i] =
                 IF i <= Len(Header(r)) THEN Header(r)[i] ELSE BodyText(r)[i - Len(Header(r))]
    BY <1>2, <1>4, SeqFacts!ConcatProperties
  <2> QED
    BY <1>2, <1>4, <1>6, <2>1
<1>8. Top(r) \in Nat
  BY DEF Top
<1>9. Tokens(r) \in Seq(Token)
  <2>1. DOMAIN Tokens(r) = 1 .. Len(Tokens(r)) /\ Len(Tokens(r)) \in Nat
    BY <1>7
  <2>2. \A i \in 1 .. Len(Tokens(r)) : Tokens(r)[i] \in Token
    BY <2>1 DEF Token, Asked
  <2>3. Tokens(r) \in [1 .. Len(Tokens(r)) -> Token]
    BY <1>7, <2>1, <2>2
  <2> QED
    BY <2>1, <2>3
<1>10. \A i \in 1 .. Top(r) : Tokens(r)[i] = Header(r)[i]
  <2>1. ASSUME NEW i \in 1 .. Top(r) PROVE i \in 1 .. Top(r) + Len(r.body) /\ i <= Top(r)
    BY <1>1, <1>8
  <2> QED
    BY <1>7, <2>1
<1>11. \A i \in 1 .. Len(r.body) : Tokens(r)[Top(r) + i] = Text(r.body[i])
  <2> TAKE i \in 1 .. Len(r.body)
  <2>1. Top(r) + i \in 1 .. Top(r) + Len(r.body) /\ ~(Top(r) + i <= Top(r)) /\ Top(r) + i - Top(r) = i
    BY <1>1, <1>8
  <2> QED
    <3> DEFINE k == Top(r) + i
    <3>1. k \in 1 .. Top(r) + Len(r.body) /\ ~(k <= Top(r))
      BY <2>1
    <3> HIDE DEF k
    <3>2. Tokens(r)[k] = BodyText(r)[k - Top(r)]
      BY <1>7, <3>1
    <3>3. k - Top(r) = i
      BY <1>1, <1>8 DEF k
    <3>4. Tokens(r)[k] = Text(r.body[i])
      BY <3>2, <3>3 DEF BodyText
    <3> QED
      BY <3>4 DEF k
<1> QED
  BY <1>6, <1>7, <1>9, <1>10, <1>11

\* What can stand in a piece of each kind.
LEMMA TokenTyped ==
    ASSUME NEW t \in Token
    PROVE  /\ t.kind \in {"line", "length", "blank", "text"}
           /\ t.kind = "blank" => t = Blank
           /\ t.kind = "text" => t.char \in Char
           /\ t.kind = "length" => t.n \in Nat
<1>1. PICK r \in Asked : \E i \in DOMAIN Tokens(r) : t = Tokens(r)[i]
  BY DEF Token, Asked
<1>2. PICK i \in DOMAIN Tokens(r) : t = Tokens(r)[i]
  BY <1>1
<1>3. /\ r.body \in Seq(Char) /\ Len(r.body) \in Nat /\ DOMAIN r.body = 1 .. Len(r.body)
      /\ r.sized \in BOOLEAN
  BY RequestTyped
<1>4. i \in 1 .. Top(r) + Len(r.body) /\ Top(r) \in Nat
  <2>1. Tokens(r) \in Seq(Token) /\ Len(Tokens(r)) = Top(r) + Len(r.body)
    BY TokensAre
  <2>2. DOMAIN Tokens(r) = 1 .. Len(Tokens(r)) /\ Top(r) \in Nat
    BY <2>1 DEF Top
  <2> QED
    BY <1>2, <2>1, <2>2
<1>5. CASE i <= Top(r)
  <2>1. t = Header(r)[i] /\ i \in 1 .. Top(r)
    BY <1>2, <1>4, <1>5, TokensAre
  <2>2. t = Line(r) \/ t = Length(Len(r.body)) \/ t = Blank
    BY <1>3, <2>1 DEF Header, Top
  <2> QED
    BY <1>3, <2>2 DEF Line, Length, Blank
<1>6. CASE i > Top(r)
  <2>1. i - Top(r) \in 1 .. Len(r.body) /\ Top(r) + (i - Top(r)) = i
    BY <1>3, <1>4, <1>6
  <2>2. t = Text(r.body[i - Top(r)])
    BY <1>2, <2>1, TokensAre
  <2> QED
    BY <1>3, <2>1, <2>2 DEF Text
<1> QED
  BY <1>4, <1>5, <1>6
-----------------------------------------------------------------------------
(* What the parser finds, and what a row holds *)

\* FirstOf is a piece of the kind it is asked for.
LEMMA FirstIs ==
    ASSUME NEW b \in Seq(Token), NEW kind, \E i \in DOMAIN b : b[i].kind = kind
    PROVE  \E i \in DOMAIN b : /\ b[i].kind = kind /\ FirstOf(b, kind) = b[i]
                               /\ \A j \in 1 .. i - 1 : b[j].kind # kind
<1> DEFINE At(i) == b[i].kind = kind /\ \A j \in 1 .. i - 1 : b[j].kind # kind
<1>1. DOMAIN b = 1 .. Len(b) /\ Len(b) \in Nat
  OBVIOUS
<1> DEFINE Places == {j \in DOMAIN b : b[j].kind = kind}
<1>2. PICK i \in Places : \A k \in Places : i <= k
  <2>1. Places \in SUBSET Nat /\ Places # {}
    BY <1>1
  <2> HIDE DEF Places
  <2> QED
    BY <2>1, SmallestOf
<1>3. i \in DOMAIN b /\ At(i)
  BY <1>1, <1>2
<1>4. (CHOOSE j \in DOMAIN b : At(j)) \in DOMAIN b /\ At(CHOOSE j \in DOMAIN b : At(j))
  <2> HIDE DEF At
  <2> QED
    BY <1>3
<1>5. FirstOf(b, kind) = b[CHOOSE j \in DOMAIN b : At(j)]
  BY DEF FirstOf
<1> QED
  BY <1>4, <1>5

\* A length is a number, and zero when no header says one.
LEMMA LengthTyped == ASSUME NEW b \in Seq(Token) PROVE ContentLength(b) \in Nat
<1>1. CASE Sized(b)
  <2>1. PICK i \in DOMAIN b : b[i].kind = "length" /\ FirstOf(b, "length") = b[i]
    BY <1>1, FirstIs DEF Sized
  <2>2. b[i] \in Token
    BY <2>1
  <2> QED
    BY <1>1, <2>1, <2>2, TokenTyped DEF ContentLength
<1>2. CASE ~Sized(b)
  BY <1>2 DEF ContentLength
<1> QED
  BY <1>1, <1>2

\* The row of a path is one of its rows.
LEMMA RowIn ==
    ASSUME NEW q, Rows(q) # {}
    PROVE  Row(q) \in Slot /\ path[Row(q)] = q
<1>1. Rows(q) \in SUBSET Nat
  BY DEF Rows, Slot
<1>2. \E i \in Rows(q) : \A j \in Rows(q) : i <= j
  BY <1>1, SmallestOf
<1>3. Row(q) \in Rows(q)
  BY <1>2 DEF Row
<1> QED
  BY <1>3 DEF Rows

\* The string of a row is what stands before its first zero.
LEMMA ContentIs ==
    ASSUME NEW row, NEW k \in 0 .. Width,
           \A j \in 1 .. k : row[j] # Nul, k = Width \/ row[k + 1] = Nul
    PROVE  Content(row) = SubSeq(row, 1, k)
<1> DEFINE Good(n) == (\A j \in 1 .. n : row[j] # Nul) /\ (n = Width \/ row[n + 1] = Nul)
<1>1. Width \in Nat
  BY WebAssumption
<1>2. Good(k)
  OBVIOUS
<1>3. ASSUME NEW n \in 0 .. Width, Good(n) PROVE n = k
  <2>1. CASE n < k
    <3>1. n + 1 \in 1 .. k /\ n # Width
      BY <1>1, <2>1
    <3> QED
      BY <1>3, <3>1
  <2>2. CASE k < n
    <3>1. k + 1 \in 1 .. n /\ k # Width
      BY <1>1, <2>2
    <3> QED
      BY <1>3, <3>1
  <2> QED
    BY <1>1, <2>1, <2>2
<1>4. Content(row) = SubSeq(row, 1, CHOOSE n \in 0 .. Width : Good(n))
  BY DEF Content
<1> HIDE DEF Good
<1>5. (CHOOSE n \in 0 .. Width : Good(n)) = k
  BY <1>2, <1>3
<1> QED
  BY <1>4, <1>5

\* A string that fits is read back as it was written.
LEMMA ContentOfRow ==
    ASSUME NEW s \in Seq(Char), Len(s) <= Width
    PROVE  Content(RowOf(s)) = s
<1>1. /\ Width \in Nat /\ Nul \notin Char /\ Len(s) \in 0 .. Width
      /\ \A i \in 1 .. Len(s) : s[i] \in Char
  BY WebAssumption
<1>2. \A i \in 1 .. Len(s) : RowOf(s)[i] = s[i] /\ RowOf(s)[i] # Nul
  BY <1>1 DEF RowOf
<1>3. Len(s) = Width \/ RowOf(s)[Len(s) + 1] = Nul
  BY <1>1 DEF RowOf
<1>4. Content(RowOf(s)) = SubSeq(RowOf(s), 1, Len(s))
  BY <1>1, <1>2, <1>3, ContentIs
<1>5. /\ SubSeq(RowOf(s), 1, Len(s)) \in Seq(Char)
      /\ Len(SubSeq(RowOf(s), 1, Len(s))) = Len(s)
      /\ \A i \in 1 .. Len(s) : SubSeq(RowOf(s), 1, Len(s))[i] = RowOf(s)[i]
  <2>1. \A i \in 1 .. Len(s) : RowOf(s)[i] \in Char
    BY <1>1, <1>2
  <2>2. /\ SubSeq(RowOf(s), 1, Len(s)) \in Seq(Char)
        /\ Len(SubSeq(RowOf(s), 1, Len(s))) = IF 1 <= Len(s) THEN Len(s) - 1 + 1 ELSE 0
        /\ \A i \in 1 .. Len(s) - 1 + 1 : SubSeq(RowOf(s), 1, Len(s))[i] = RowOf(s)[1 + i - 1]
    BY <1>1, <2>1, SeqFacts!SubSeqProperties
  <2>3. Len(s) - 1 + 1 = Len(s) /\ \A i \in 1 .. Len(s) : 1 + i - 1 = i
    BY <1>1
  <2> QED
    BY <1>1, <2>2, <2>3
<1> QED
  BY <1>2, <1>4, <1>5, SeqFacts!SeqEqual

\* A row of zeros, and the row of a static resource.
LEMMA RowsTyped ==
    /\ Empty \in [1 .. Width -> Char \cup {Nul}]
    /\ \A p \in StaticPath : RowOf(StaticContent[p]) \in [1 .. Width -> Char \cup {Nul}]
BY WebAssumption DEF Empty, RowOf
-----------------------------------------------------------------------------
(* The invariant *)

Codes == {200, 201, 400, 403, 404, 501}

TableTyped ==
    /\ path \in [Slot -> StaticPath \cup DynamicPath \cup {None}]
    /\ payload \in [Slot -> [1 .. Width -> Char \cup {Nul}]]

ThreadTyped ==
    /\ buffer \in Seq(Token)
    /\ conn \in Client \cup {None} /\ pc \in {"accept", "recv", "body", "undefined"}
    /\ pc # "accept" <=> conn # None

ClientsTyped ==
    /\ backlog \in Seq(Client) /\ wire \in [Client -> Seq(Token)]
    /\ phase \in [Client -> {"off", "idle", "busy", "gone"}]
    /\ asked \in [Client -> Asked \cup {None}]
    /\ DOMAIN got = Client /\ \A c \in Client : got[c] # None => got[c].status \in Codes
    /\ left \in 0 .. MaxRequests /\ polite \in BOOLEAN

\* What is still under way to the server: characters of a body that nobody
\* has received, and behind them at most one request.
OneBlank(w) ==
    \A i, j \in DOMAIN w : i < j /\ w[i].kind = "blank" => IsText(w[j])
AllText(w) == \A i \in DOMAIN w : IsText(w[i])

WireSound ==
    /\ \A c \in Client : OneBlank(wire[c])
    /\ \A c \in Client : phase[c] \in {"off", "idle"} => AllText(wire[c])

\* A body is received when a request has announced one, and from a client
\* that sends no second request meanwhile.
BodySound ==
    pc = "body" => /\ TakesBody(buffer) /\ AllText(wire[conn])
                   /\ phase[conn] \in {"busy", "gone"}

WebInv ==
    /\ TableTyped /\ ThreadTyped /\ ClientsTyped /\ WireSound /\ BodySound
    /\ OneRowEach /\ EmptyRowsAreEmpty /\ StaticKept

\* main fills a row for every static resource.
LEMMA WebInit == ASSUME Init PROVE WebInv
<1>1. /\ Width \in Nat /\ MaxRequests \in Nat
      /\ StaticSlot \in [StaticPath -> Slot]
      /\ \A p, q \in StaticPath : StaticSlot[p] = StaticSlot[q] => p = q
      /\ None \notin StaticPath /\ None \notin Client
      /\ Manners \subseteq BOOLEAN
      /\ \A p \in StaticPath : StaticContent[p] \in Seq(Char) /\ Len(StaticContent[p]) <= Width
  BY WebAssumption
<1>2. \A i \in Slot : \/ path[i] = None /\ \A p \in StaticPath : StaticSlot[p] # i
                      \/ path[i] \in StaticPath /\ StaticSlot[path[i]] = i
  BY DEF Init
<1>3. \A i \in Slot : payload[i] = IF path[i] = None THEN Empty ELSE RowOf(StaticContent[path[i]])
  BY DEF Init
<1>4. TableTyped
  <2>1. \A i \in Slot : payload[i] \in [1 .. Width -> Char \cup {Nul}]
    BY <1>1, <1>2, <1>3, RowsTyped
  <2>2. path = [i \in Slot |-> path[i]] /\ payload = [i \in Slot |-> payload[i]]
    BY DEF Init
  <2> QED
    BY <1>2, <2>1, <2>2 DEF TableTyped
<1>5. ThreadTyped
  BY <1>1 DEF Init, ThreadTyped
<1>6. ClientsTyped
  BY <1>1 DEF Init, ClientsTyped
<1>7. WireSound
  BY DEF Init, WireSound, OneBlank, AllText
<1>8. BodySound
  BY DEF Init, BodySound
<1>9. OneRowEach
  BY <1>2 DEF OneRowEach
<1>10. EmptyRowsAreEmpty
  BY <1>3 DEF EmptyRowsAreEmpty
<1>11. StaticKept
  <2> SUFFICES ASSUME NEW p \in StaticPath
               PROVE  /\ path[StaticSlot[p]] = p
                      /\ Content(payload[StaticSlot[p]]) = StaticContent[p]
    BY DEF StaticKept
  <2>1. StaticSlot[p] \in Slot
    BY <1>1
  <2>2. path[StaticSlot[p]] = p
    BY <1>1, <1>2, <2>1
  <2>3. payload[StaticSlot[p]] = RowOf(StaticContent[p])
    BY <1>1, <1>3, <2>1, <2>2
  <2> QED
    BY <1>1, <2>2, <2>3, ContentOfRow
<1> QED
  BY <1>4, <1>5, <1>6, <1>7, <1>8, <1>9, <1>10, <1>11 DEF WebInv
-----------------------------------------------------------------------------
(* The pieces under way *)

\* A part of what is under way has no more blank lines than the whole.
LEMMA PartSound ==
    ASSUME NEW w \in Seq(Token), NEW m \in Nat \ {0}, NEW n \in Nat, n <= Len(w)
    PROVE  /\ SubSeq(w, m, n) \in Seq(Token)
           /\ OneBlank(w) => OneBlank(SubSeq(w, m, n))
           /\ AllText(w) => AllText(SubSeq(w, m, n))
<1> DEFINE part == SubSeq(w, m, n)
<1>1. \A i \in m .. n : w[i] \in Token
  OBVIOUS
<1>2. /\ part \in Seq(Token) /\ Len(part) = IF m <= n THEN n - m + 1 ELSE 0
      /\ \A i \in 1 .. n - m + 1 : part[i] = w[m + i - 1]
  BY <1>1, SeqFacts!SubSeqProperties
<1>3. DOMAIN w = 1 .. Len(w) /\ Len(w) \in Nat
  OBVIOUS
<1>4. \A i \in DOMAIN part : /\ i \in Nat /\ m + i - 1 \in DOMAIN w
                             /\ part[i] = w[m + i - 1]
  <2>1. DOMAIN part = 1 .. Len(part)
    BY <1>2
  <2> HIDE DEF part
  <2> TAKE i \in DOMAIN part
  <2>2. i \in 1 .. n - m + 1
    BY <1>2, <2>1
  <2> QED
    BY <1>2, <1>3, <2>2
<1> HIDE DEF part
<1>5. ASSUME OneBlank(w) PROVE OneBlank(part)
  <2> SUFFICES ASSUME NEW i \in DOMAIN part, NEW j \in DOMAIN part,
                      i < j, part[i].kind = "blank"
               PROVE  IsText(part[j])
    BY DEF OneBlank
  <2>1. m + i - 1 < m + j - 1
    BY <1>4
  <2>2. IsText(w[m + j - 1])
    BY <1>4, <1>5, <2>1 DEF OneBlank
  <2> QED
    BY <1>4, <2>2
<1>6. ASSUME AllText(w) PROVE AllText(part)
  BY <1>4, <1>6 DEF AllText
<1> USE DEF part
<1> QED
  BY <1>2, <1>5, <1>6

\* So has what is left when one piece is received, and behind a blank line
\* there is only a body.
LEMMA TailSound ==
    ASSUME NEW w \in Seq(Token), w # <<>>
    PROVE  /\ Head(w) \in Token /\ Tail(w) \in Seq(Token)
           /\ OneBlank(w) => OneBlank(Tail(w))
           /\ AllText(w) => AllText(Tail(w)) /\ Head(w) # Blank
           /\ OneBlank(w) /\ Head(w) = Blank => AllText(Tail(w))
<1>1. /\ Head(w) \in Token /\ Head(w) = w[1] /\ Tail(w) \in Seq(Token) /\ Len(w) \in Nat \ {0}
      /\ DOMAIN w = 1 .. Len(w) /\ DOMAIN Tail(w) = 1 .. Len(w) - 1
  OBVIOUS
<1>2. \A i \in 1 .. Len(w) - 1 : Tail(w)[i] = w[i + 1]
  OBVIOUS
<1>3. Tail(w) = SubSeq(w, 2, Len(w))
  BY SeqFacts!TailIsSubSeq
<1>4. /\ OneBlank(w) => OneBlank(Tail(w))
      /\ AllText(w) => AllText(Tail(w))
  <2>1. 2 \in Nat \ {0} /\ Len(w) \in Nat /\ Len(w) <= Len(w)
    BY <1>1
  <2>2. /\ OneBlank(w) => OneBlank(SubSeq(w, 2, Len(w)))
        /\ AllText(w) => AllText(SubSeq(w, 2, Len(w)))
    BY <2>1, PartSound
  <2> QED
    BY <1>3, <2>2
<1>5. AllText(w) => Head(w) # Blank
  BY <1>1 DEF AllText, IsText, Blank
<1>6. ASSUME OneBlank(w), Head(w) = Blank PROVE AllText(Tail(w))
  <2>1. w[1].kind = "blank"
    BY <1>1, <1>6 DEF Blank
  <2>2. \A j \in DOMAIN w : 1 < j => IsText(w[j])
    BY <1>1, <1>6, <2>1 DEF OneBlank
  <2> QED
    BY <1>1, <1>2, <2>2 DEF AllText
<1> QED
  BY <1>1, <1>4, <1>5, <1>6

\* A request behind the rest of a body brings one blank line.
LEMMA AskSound ==
    ASSUME NEW w \in Seq(Token), AllText(w), NEW r \in Asked
    PROVE  w \o Tokens(r) \in Seq(Token) /\ OneBlank(w \o Tokens(r))
<1> DEFINE t == Tokens(r)
<1>1. /\ t \in Seq(Token) /\ Len(t) = Top(r) + Len(r.body)
      /\ \A i \in 1 .. Top(r) : t[i] = Header(r)[i]
      /\ \A i \in 1 .. Len(r.body) : t[Top(r) + i] = Text(r.body[i])
  BY TokensAre
<1>2. Len(r.body) \in Nat /\ Top(r) \in Nat /\ r.sized \in BOOLEAN
  BY RequestTyped DEF Top
<1> HIDE DEF t
<1>3. \A i \in 1 .. Top(r) - 1 : t[i].kind # "blank"
  <2>1. \A i \in 1 .. Top(r) - 1 : Header(r)[i].kind # "blank"
    BY <1>2 DEF Top, Header, Line, Length
  <2> QED
    BY <1>1, <1>2, <2>1
<1>4. \A i \in Top(r) + 1 .. Len(t) : IsText(t[i])
  <2> TAKE i \in Top(r) + 1 .. Len(t)
  <2>1. i - Top(r) \in 1 .. Len(r.body) /\ Top(r) + (i - Top(r)) = i
    BY <1>1, <1>2
  <2>2. t[i] = Text(r.body[i - Top(r)])
    BY <1>1, <2>1
  <2> QED
    BY <2>2 DEF IsText, Text
<1>5. /\ w \o t \in Seq(Token) /\ Len(w \o t) = Len(w) + Len(t)
      /\ \A i \in 1 .. Len(w) + Len(t) :
            (w \o t)[i] = IF i <= Len(w) THEN w[i] ELSE t[i - Len(w)]
  BY <1>1, SeqFacts!ConcatProperties
<1>6. Len(w) \in Nat /\ Len(t) \in Nat /\ DOMAIN w = 1 .. Len(w)
  BY <1>1
<1>7. OneBlank(w \o t)
  <2> SUFFICES ASSUME NEW i \in 1 .. Len(w) + Len(t), NEW j \in 1 .. Len(w) + Len(t),
                      i < j, (w \o t)[i].kind = "blank"
               PROVE  IsText((w \o t)[j])
    BY <1>5 DEF OneBlank
  <2>1. ~(i <= Len(w))
    BY <1>5, <1>6 DEF AllText, IsText
  <2>2. i - Len(w) \in 1 .. Len(t) /\ t[i - Len(w)].kind = "blank"
    BY <1>5, <1>6, <2>1
  <2>3. i - Len(w) >= Top(r)
    BY <1>2, <1>3, <1>6, <2>2
  <2>4. ~(j <= Len(w)) /\ j - Len(w) \in Top(r) + 1 .. Len(t)
    BY <1>2, <1>6, <2>1, <2>3
  <2>5. IsText(t[j - Len(w)])
    BY <1>4, <2>4
  <2> QED
    BY <1>5, <2>4, <2>5
<1> USE DEF t
<1> QED
  BY <1>5, <1>7
-----------------------------------------------------------------------------
(* What a step does *)

\* A PUT that goes through, and a DELETE that finds its row.
Writes(p, row, body) ==
    /\ path[row] = p \/ (path[row] = None /\ Rows(p) = {})
    /\ path' = [path EXCEPT ![row] = p]
    /\ payload' = [payload EXCEPT ![row] = Copied(@, body)]

Erases(row) ==
    /\ path[row] \in DynamicPath
    /\ path' = [path EXCEPT ![row] = None]
    /\ payload' = [payload EXCEPT ![row] = Empty]

\* The answer to a request, as the client gets it.
Answered(status, content) ==
    /\ status \in Codes
    /\ got' = IF phase[conn] = "busy"
              THEN [got EXCEPT ![conn] = [status |-> status, content |-> content]] ELSE got
    /\ phase' = IF phase[conn] = "busy" THEN [phase EXCEPT ![conn] = "idle"] ELSE phase
    /\ asked' = [asked EXCEPT ![conn] = None]
    /\ buffer' = <<>> /\ pc' = "recv" /\ conn' = conn
    /\ backlog' = backlog /\ left' = left

\* The version decides between an answer and 400.
LEMMA RespondAnswers ==
    ASSUME NEW status \in Codes, NEW content, NEW b, Respond(Checked(status, b), content)
    PROVE  \E s \in Codes : Answered(s, content)
<1>1. Checked(status, b) \in Codes
  BY DEF Checked, Codes
<1> QED
  BY <1>1 DEF Respond, Answered

\* Receiving the body of a request: all of it is there from a polite client.
LEMMA BodyStep ==
    ASSUME WebInv, RecvBody
    PROVE  \E k \in Nat :
             /\ 1 <= k /\ k <= ContentLength(buffer) /\ k <= Len(wire[conn])
             /\ polite => k = ContentLength(buffer)
             /\ wire' = [wire EXCEPT ![conn] = SubSeq(@, k + 1, Len(@))]
             /\ \/ /\ Method(buffer) = "PUT"
                   /\ \E body \in Seq(Char \cup {Nul}) :
                        /\ Len(body) = ContentLength(buffer)
                        /\ \A i \in 1 .. k : body[i] = wire[conn][i].char
                        /\ Put(Url(buffer), body)
                \/ /\ Method(buffer) = "DELETE" /\ Url(buffer) \in DynamicPath
                   /\ Delete(Url(buffer))
<1> DEFINE n == ContentLength(buffer)
           w == wire[conn]
           part(k) == [i \in 1 .. k |-> w[i].char]
<1>1. /\ pc = "body" /\ conn \in Client /\ buffer \in Seq(Token) /\ w \in Seq(Token)
      /\ TakesBody(buffer) /\ AllText(w)
  BY WebAssumption DEF WebInv, RecvBody, ThreadTyped, ClientsTyped, BodySound
<1>2. n \in Nat
  BY <1>1, LengthTyped
<1>3. PICK k \in 1 .. n :
         /\ k <= Len(w) /\ (polite => k = n)
         /\ wire' = [wire EXCEPT ![conn] = SubSeq(@, k + 1, Len(@))]
         /\ \/ /\ Method(buffer) = "PUT"
               /\ \E body \in Bodies(part(k), n) : Put(Url(buffer), body)
            \/ Method(buffer) = "DELETE" /\ Delete(Url(buffer))
  BY DEF RecvBody
<1>4. part(k) \in Seq(Char) /\ Len(part(k)) = k
  <2>1. \A i \in 1 .. k : w[i] \in Token /\ w[i].kind = "text"
    BY <1>1, <1>2, <1>3 DEF AllText, IsText
  <2>2. \A i \in 1 .. k : w[i].char \in Char
    BY <2>1, TokenTyped
  <2>3. k \in Nat /\ part(k) \in [1 .. k -> Char]
    BY <1>2, <2>2
  <2> HIDE DEF part, n, w
  <2> QED
    BY <2>3
<1>5. ASSUME NEW body \in Bodies(part(k), n)
      PROVE  /\ body \in Seq(Char \cup {Nul}) /\ Len(body) = n
             /\ \A i \in 1 .. k : body[i] = w[i].char
  <2>1. PICK rest \in [1 .. n - k -> Char \cup {Nul}] : body = part(k) \o rest
    BY <1>4 DEF Bodies
  <2>2. n - k \in Nat
    BY <1>2, <1>3
  <2>3. rest \in Seq(Char \cup {Nul}) /\ Len(rest) = n - k
    BY <2>1, <2>2
  <2>4. part(k) \in Seq(Char \cup {Nul})
    BY <1>4, SeqFacts!SeqMonotonic
  <2>5. \A i \in 1 .. k : part(k)[i] = w[i].char
    OBVIOUS
  <2> HIDE DEF part, n, w
  <2>6. /\ part(k) \o rest \in Seq(Char \cup {Nul}) /\ Len(part(k) \o rest) = k + (n - k)
        /\ \A i \in 1 .. k + (n - k) :
              (part(k) \o rest)[i] = IF i <= k THEN part(k)[i] ELSE rest[i - k]
    <3>1. /\ part(k) \o rest \in Seq(Char \cup {Nul})
          /\ Len(part(k) \o rest) = Len(part(k)) + Len(rest)
          /\ \A i \in 1 .. Len(part(k)) + Len(rest) :
                (part(k) \o rest)[i] = IF i <= Len(part(k)) THEN part(k)[i] ELSE rest[i - Len(part(k))]
      BY <2>3, <2>4, SeqFacts!ConcatProperties
    <3> QED
      BY <1>4, <2>3, <3>1
  <2>7. k + (n - k) = n /\ \A i \in 1 .. k : i \in 1 .. n /\ i <= k
    BY <1>2, <1>3
  <2> QED
    BY <2>1, <2>5, <2>6, <2>7
<1>6. Method(buffer) = "DELETE" => Url(buffer) \in DynamicPath
  BY <1>1 DEF TakesBody
<1>7. k \in Nat /\ 1 <= k /\ k <= n
  BY <1>2, <1>3
<1>8. Method(buffer) = "PUT" /\ (\E body \in Bodies(part(k), n) : Put(Url(buffer), body)) =>
         \E body \in Seq(Char \cup {Nul}) :
            /\ Len(body) = n /\ (\A i \in 1 .. k : body[i] = w[i].char)
            /\ Put(Url(buffer), body)
  <2> HIDE DEF part, n, w
  <2> QED
    BY <1>5
<1> HIDE DEF part
<1> QED
  BY <1>3, <1>6, <1>7, <1>8

\* Receiving a line: the thread goes on reading, goes to the body, or answers.
LEMMA RecvStep ==
    ASSUME WebInv, Recv
    PROVE  /\ pc = "recv" /\ conn \in Client /\ wire[conn] \in Seq(Token) /\ wire[conn] # <<>>
           /\ wire' = [wire EXCEPT ![conn] = Tail(@)] /\ polite' = polite
           /\ table' = table
           /\ LET b == Append(buffer, Head(wire[conn]))
              IN \/ /\ Head(wire[conn]) # Blank
                    /\ buffer' = b /\ conn' = conn /\ pc' = pc /\ client' = client /\ got' = got
                 \/ /\ Head(wire[conn]) = Blank /\ TakesBody(b)
                    /\ buffer' = b /\ conn' = conn /\ pc' = "body" /\ client' = client /\ got' = got
                 \/ /\ Head(wire[conn]) = Blank /\ ~TakesBody(b)
                    /\ AnswerAtOnce(b)
                    /\ \E content : \E status \in Codes : Answered(status, content)
<1>1. /\ pc = "recv" /\ conn \in Client /\ buffer \in Seq(Token)
      /\ wire[conn] \in Seq(Token) /\ wire[conn] # <<>>
  BY DEF WebInv, Recv, ThreadTyped, ClientsTyped
<1> DEFINE b == Append(buffer, Head(wire[conn]))
<1>2. Head(wire[conn]) \in Token
  BY <1>1, TailSound
<1>3. Last(b) = Head(wire[conn])
  <2>1. Len(b) = Len(buffer) + 1 /\ b[Len(buffer) + 1] = Head(wire[conn])
    BY <1>1, <1>2, SeqFacts!AppendProperties
  <2> QED
    BY <2>1 DEF Last
<1> HIDE DEF b
<1>4. ASSUME AnswerAtOnce(b) PROVE \E content : \E status \in Codes : Answered(status, content)
  <2> DEFINE p == Url(b)
             found == Method(b) = "GET" /\ Rows(p) # {} /\ Version(b)
             status == CASE Method(b) = "GET" -> IF Rows(p) # {} THEN 200 ELSE 404
                         [] Method(b) \in {"PUT", "POST"} /\ ~Sized(b) -> 400
                         [] Method(b) = "DELETE" -> 403
                         [] OTHER -> 501
             content == IF found THEN Content(payload[Row(p)]) ELSE <<>>
  <2>1. Respond(Checked(status, b), content)
    BY <1>4 DEF AnswerAtOnce
  <2>2. status \in Codes
    <3>1. Method(b) = "GET" => status \in Codes
      BY DEF Codes
    <3>2. Method(b) = "DELETE" => status \in Codes
      BY DEF Codes
    <3>3. Method(b) \in {"PUT", "POST"} => status \in Codes
      BY DEF Codes
    <3>4. Method(b) \notin {"GET", "DELETE", "PUT", "POST"} => status \in Codes
      BY DEF Codes
    <3> QED
      BY <3>1, <3>2, <3>3, <3>4
  <2> HIDE DEF status, content
  <2>3. \E s \in Codes : Answered(s, content)
    BY <2>1, <2>2, RespondAnswers
  <2> QED
    BY <2>3
<1>5. /\ wire' = [wire EXCEPT ![conn] = Tail(@)] /\ polite' = polite
      /\ \/ /\ Last(b) # Blank
            /\ buffer' = b
            /\ UNCHANGED <<table, conn, pc, client, got>>
         \/ /\ Last(b) = Blank /\ TakesBody(b)
            /\ buffer' = b /\ pc' = "body"
            /\ UNCHANGED <<table, conn, client, got>>
         \/ Last(b) = Blank /\ ~TakesBody(b) /\ AnswerAtOnce(b)
  BY DEF Recv, b
<1>6. AnswerAtOnce(b) => table' = table
  BY DEF AnswerAtOnce
<1>7. \/ /\ Head(wire[conn]) # Blank
         /\ buffer' = b /\ conn' = conn /\ pc' = pc /\ client' = client /\ got' = got
      \/ /\ Head(wire[conn]) = Blank /\ TakesBody(b)
         /\ buffer' = b /\ conn' = conn /\ pc' = "body" /\ client' = client /\ got' = got
      \/ /\ Head(wire[conn]) = Blank /\ ~TakesBody(b)
         /\ AnswerAtOnce(b)
         /\ \E content : \E status \in Codes : Answered(status, content)
  BY <1>3, <1>4, <1>5
<1> QED
  BY <1>1, <1>5, <1>6, <1>7 DEF b

\* Putting a resource: it is refused, written, or the table is full.
LEMMA PutStep ==
    ASSUME NEW p, NEW body \in Seq(Char \cup {Nul}), Put(p, body)
    PROVE  \/ table' = table /\ \E status \in Codes : Answered(status, <<>>)
           \/ /\ p \in DynamicPath /\ \E row \in Slot : Writes(p, row, body)
              /\ \E status \in Codes : Answered(status, <<>>)
           \/ /\ pc' = "undefined" /\ table' = table /\ buffer' = buffer /\ conn' = conn
              /\ client' = client /\ got' = got
<1>1. CASE p \notin DynamicPath /\ Respond(Checked(403, buffer), <<>>) /\ UNCHANGED table
  BY <1>1, RespondAnswers DEF Codes
<1>2. CASE /\ p \in DynamicPath /\ Rows(p) \cup Rows(None) # {}
           /\ LET row == IF Rows(p) # {} THEN Row(p) ELSE Row(None)
              IN /\ path' = [path EXCEPT ![row] = p]
                 /\ payload' = [payload EXCEPT ![row] = Copied(@, body)]
           /\ Respond(Checked(IF Rows(p) # {} THEN 200 ELSE 201, buffer), <<>>)
  <2>1. (IF Rows(p) # {} THEN 200 ELSE 201) \in Codes
    BY DEF Codes
  <2>2. \E status \in Codes : Answered(status, <<>>)
    BY <1>2, <2>1, RespondAnswers
  <2>3. CASE Rows(p) # {}
    BY <1>2, <2>2, <2>3, RowIn DEF Writes
  <2>4. CASE Rows(p) = {}
    BY <1>2, <2>2, <2>4, RowIn DEF Writes
  <2> QED
    BY <2>3, <2>4
<1>3. CASE /\ p \in DynamicPath /\ Rows(p) \cup Rows(None) = {}
           /\ pc' = "undefined" /\ UNCHANGED <<table, buffer, conn, client, got>>
  BY <1>3
<1> QED
  BY <1>1, <1>2, <1>3 DEF Put

\* Deleting one: its row is empty afterwards, if it had one.
LEMMA DeleteStep ==
    ASSUME NEW p \in DynamicPath, Delete(p)
    PROVE  /\ \E status \in Codes : Answered(status, <<>>)
           /\ table' = table \/ \E row \in Slot : Erases(row)
<1>1. (IF Rows(p) # {} THEN 200 ELSE 404) \in Codes
  BY DEF Codes
<1>2. \E status \in Codes : Answered(status, <<>>)
  BY <1>1, RespondAnswers DEF Delete
<1>3. CASE Rows(p) # {}
  BY <1>2, <1>3, RowIn DEF Delete, Erases
<1>4. CASE Rows(p) = {}
  BY <1>2, <1>4 DEF Delete, table
<1> QED
  BY <1>3, <1>4
-----------------------------------------------------------------------------
(* The invariant is kept *)

\* Everything but the table, which has a lemma of its own.
FlowInv == ThreadTyped /\ ClientsTyped /\ WireSound /\ BodySound

\* After an answer the thread waits for the next line, with characters of a
\* body before it at most.
LEMMA AnswerKeepsFlow ==
    ASSUME WebInv, conn \in Client, NEW status, NEW content, Answered(status, content),
           NEW w \in Seq(Token), AllText(w), wire' = [wire EXCEPT ![conn] = w],
           polite' = polite
    PROVE  FlowInv'
<1>1. /\ ThreadTyped /\ ClientsTyped /\ WireSound
  BY DEF WebInv
<1>2. ThreadTyped'
  <2>1. None \notin Client
    BY WebAssumption
  <2> QED
    BY <1>1, <2>1 DEF Answered, ThreadTyped
<1>3. \A c \in Client : /\ wire'[c] = IF c = conn THEN w ELSE wire[c]
                        /\ phase'[c] \in {"off", "idle"} => c = conn \/ phase[c] \in {"off", "idle"}
  BY <1>1 DEF Answered, ClientsTyped
<1>4. ClientsTyped'
  <2>1. /\ backlog' \in Seq(Client) /\ left' \in 0 .. MaxRequests /\ polite' \in BOOLEAN
    BY <1>1 DEF Answered, ClientsTyped
  <2>2. phase' \in [Client -> {"off", "idle", "busy", "gone"}] /\ wire' \in [Client -> Seq(Token)]
    BY <1>1 DEF Answered, ClientsTyped
  <2>3. asked' \in [Client -> Asked \cup {None}]
    BY <1>1 DEF Answered, ClientsTyped
  <2>4. DOMAIN got' = Client /\ \A c \in Client : got'[c] # None => got'[c].status \in Codes
    BY <1>1 DEF Answered, ClientsTyped
  <2> QED
    BY <2>1, <2>2, <2>3, <2>4 DEF ClientsTyped
<1>5. OneBlank(w)
  BY DEF OneBlank, AllText
<1>6. WireSound'
  <2>1. \A c \in Client : OneBlank(wire'[c])
    BY <1>1, <1>3, <1>5 DEF WireSound
  <2>2. \A c \in Client : phase'[c] \in {"off", "idle"} => AllText(wire'[c])
    BY <1>1, <1>3 DEF WireSound
  <2> QED
    BY <2>1, <2>2 DEF WireSound, OneBlank, AllText
<1>7. BodySound'
  BY DEF Answered, BodySound
<1> QED
  BY <1>2, <1>4, <1>6, <1>7 DEF FlowInv

\* What a client does leaves the rest of its last body before its next
\* request.
LEMMA AskKeepsFlow ==
    ASSUME WebInv, NEW c \in Client, NEW r \in Asked, Ask(c, r)
    PROVE  FlowInv'
<1>1. /\ ThreadTyped /\ ClientsTyped /\ WireSound /\ BodySound
  BY DEF WebInv
<1>2. wire[c] \in Seq(Token) /\ AllText(wire[c]) /\ phase[c] \in {"off", "idle"}
  BY <1>1 DEF Ask, WireSound, ClientsTyped
<1> DEFINE w == wire[c] \o Tokens(r)
<1>3. w \in Seq(Token) /\ OneBlank(w)
  BY <1>2, AskSound
<1>4. wire' = [wire EXCEPT ![c] = w]
  BY DEF Ask
<1> HIDE DEF w
<1>5. ThreadTyped'
  BY <1>1 DEF Ask, ThreadTyped
<1>6. ClientsTyped'
  <2>1. /\ backlog' \in Seq(Client) /\ polite' \in BOOLEAN
    BY <1>1 DEF Ask, ClientsTyped
  <2>2. left' \in 0 .. MaxRequests
    <3>1. MaxRequests \in Nat
      BY WebAssumption
    <3> QED
      BY <1>1, <3>1 DEF Ask, ClientsTyped
  <2>3. /\ phase' \in [Client -> {"off", "idle", "busy", "gone"}] /\ wire' \in [Client -> Seq(Token)]
        /\ asked' \in [Client -> Asked \cup {None}]
    BY <1>1, <1>3, <1>4 DEF Ask, ClientsTyped
  <2>4. DOMAIN got' = Client /\ \A d \in Client : got'[d] # None => got'[d].status \in Codes
    BY <1>1 DEF Ask, ClientsTyped
  <2> QED
    BY <2>1, <2>2, <2>3, <2>4 DEF ClientsTyped
<1>7. \A d \in Client : /\ wire'[d] = IF d = c THEN w ELSE wire[d]
                        /\ phase'[d] = IF d = c THEN "busy" ELSE phase[d]
  BY <1>1, <1>4 DEF Ask, ClientsTyped
<1>8. WireSound'
  <2>1. \A d \in Client : OneBlank(wire'[d])
    BY <1>1, <1>3, <1>7 DEF WireSound
  <2>2. \A d \in Client : phase'[d] \in {"off", "idle"} => AllText(wire'[d])
    BY <1>1, <1>7 DEF WireSound
  <2> QED
    BY <2>1, <2>2 DEF WireSound, OneBlank, AllText
<1>9. BodySound'
  <2> SUFFICES ASSUME pc' = "body"
               PROVE  /\ TakesBody(buffer)' /\ AllText(wire'[conn'])
                      /\ phase'[conn'] \in {"busy", "gone"}
    BY DEF BodySound, AllText
  <2>1. pc = "body" /\ conn' = conn /\ buffer' = buffer
    BY DEF Ask
  <2>2. conn \in Client /\ conn # c
    <3>1. conn \in Client
      BY <1>1, <2>1 DEF ThreadTyped
    <3>2. phase[conn] \in {"busy", "gone"}
      BY <1>1, <2>1 DEF BodySound
    <3> QED
      BY <1>2, <3>1, <3>2
  <2>3. TakesBody(buffer)' <=> TakesBody(buffer)
    BY <2>1 DEF TakesBody, Method, Sized, Url, FirstOf
  <2> QED
    BY <1>1, <1>7, <2>1, <2>2, <2>3 DEF BodySound
<1> QED
  BY <1>5, <1>6, <1>8, <1>9 DEF FlowInv

\* A client that hangs up takes back the end of what it has sent.
LEMMA HangUpKeepsFlow ==
    ASSUME WebInv, NEW c \in Client, HangUp(c)
    PROVE  FlowInv'
<1>1. /\ ThreadTyped /\ ClientsTyped /\ WireSound /\ BodySound
  BY DEF WebInv
<1>2. PICK k \in 0 .. Len(wire[c]) : wire' = [wire EXCEPT ![c] = SubSeq(@, 1, k)]
  BY DEF HangUp
<1> DEFINE w == SubSeq(wire[c], 1, k)
<1>3. /\ w \in Seq(Token) /\ OneBlank(w)
      /\ AllText(wire[c]) => AllText(w)
  <2>1. wire[c] \in Seq(Token) /\ OneBlank(wire[c]) /\ k \in Nat /\ k <= Len(wire[c]) /\ 1 \in Nat \ {0}
    BY <1>1, <1>2 DEF ClientsTyped, WireSound
  <2> QED
    BY <2>1, PartSound
<1>4. wire' = [wire EXCEPT ![c] = w]
  BY <1>2
<1> HIDE DEF w
<1>5. ThreadTyped'
  BY <1>1 DEF HangUp, ThreadTyped
<1>6. ClientsTyped'
  BY <1>1, <1>3, <1>4 DEF HangUp, ClientsTyped
<1>7. \A d \in Client : /\ wire'[d] = IF d = c THEN w ELSE wire[d]
                        /\ phase'[d] = IF d = c THEN "gone" ELSE phase[d]
  BY <1>1, <1>4 DEF HangUp, ClientsTyped
<1>8. WireSound'
  <2>1. \A d \in Client : OneBlank(wire'[d])
    BY <1>1, <1>3, <1>7 DEF WireSound
  <2>2. \A d \in Client : phase'[d] \in {"off", "idle"} => AllText(wire'[d])
    BY <1>1, <1>7 DEF WireSound
  <2> QED
    BY <2>1, <2>2 DEF WireSound, OneBlank, AllText
<1>9. BodySound'
  <2> SUFFICES ASSUME pc' = "body"
               PROVE  /\ TakesBody(buffer)' /\ AllText(wire'[conn'])
                      /\ phase'[conn'] \in {"busy", "gone"}
    BY DEF BodySound, AllText
  <2>1. pc = "body" /\ conn' = conn /\ buffer' = buffer
    BY DEF HangUp
  <2>2. conn \in Client
    BY <1>1, <2>1 DEF ThreadTyped
  <2>3. TakesBody(buffer)' <=> TakesBody(buffer)
    BY <2>1 DEF TakesBody, Method, Sized, Url, FirstOf
  <2> QED
    BY <1>1, <1>3, <1>7, <2>1, <2>2, <2>3 DEF BodySound
<1> QED
  BY <1>5, <1>6, <1>8, <1>9 DEF FlowInv

\* Accepting, and closing when nothing more comes, leave every wire alone.
LEMMA QuietKeepsFlow ==
    ASSUME WebInv, Accept \/ RecvEnd \/ BodyEnd
    PROVE  FlowInv'
<1>1. /\ ThreadTyped /\ ClientsTyped /\ WireSound /\ BodySound
  BY DEF WebInv
<1>2. pc' \in {"accept", "recv"} /\ wire' = wire /\ phase' = phase
  BY DEF Accept, RecvEnd, BodyEnd, Break, client
<1>3. ThreadTyped'
  <2>1. None \notin Client
    BY WebAssumption
  <2>2. CASE Accept
    BY <1>1, <2>1, <2>2 DEF Accept, ThreadTyped, ClientsTyped
  <2>3. CASE RecvEnd \/ BodyEnd
    BY <1>1, <2>1, <2>3 DEF RecvEnd, BodyEnd, Break, ThreadTyped
  <2> QED
    BY <2>2, <2>3
<1>4. ClientsTyped'
  <2>1. CASE Accept
    BY <1>1, <2>1 DEF Accept, ClientsTyped
  <2>2. CASE RecvEnd \/ BodyEnd
    BY <1>1, <2>2 DEF RecvEnd, BodyEnd, Break, client, ClientsTyped
  <2> QED
    BY <2>1, <2>2
<1>5. WireSound'
  BY <1>1, <1>2 DEF WireSound, OneBlank, AllText
<1>6. BodySound'
  BY <1>2 DEF BodySound
<1> QED
  BY <1>3, <1>4, <1>5, <1>6 DEF FlowInv

\* A line is added to the buffer or answered; behind the blank line of a
\* request there is its body.
LEMMA RecvKeepsFlow ==
    ASSUME WebInv, Recv
    PROVE  FlowInv'
<1> DEFINE w == Tail(wire[conn])
           b == Append(buffer, Head(wire[conn]))
<1>1. /\ ThreadTyped /\ ClientsTyped /\ WireSound /\ BodySound
  BY DEF WebInv
<1>2. /\ pc = "recv" /\ conn \in Client /\ wire[conn] \in Seq(Token) /\ wire[conn] # <<>>
      /\ wire' = [wire EXCEPT ![conn] = w] /\ polite' = polite
  BY RecvStep
<1>3. /\ Head(wire[conn]) \in Token /\ w \in Seq(Token) /\ OneBlank(w)
      /\ AllText(wire[conn]) => AllText(w) /\ Head(wire[conn]) # Blank
      /\ Head(wire[conn]) = Blank => AllText(w)
  BY <1>1, <1>2, TailSound DEF WireSound
<1>4. b \in Seq(Token)
  BY <1>1, <1>3 DEF ThreadTyped
<1>5. \/ /\ Head(wire[conn]) # Blank
         /\ buffer' = b /\ conn' = conn /\ pc' = pc /\ client' = client /\ got' = got
      \/ /\ Head(wire[conn]) = Blank /\ TakesBody(b)
         /\ buffer' = b /\ conn' = conn /\ pc' = "body" /\ client' = client /\ got' = got
      \/ /\ Head(wire[conn]) = Blank
         /\ \E content : \E status \in Codes : Answered(status, content)
  BY RecvStep
<1> HIDE DEF w, b
<1>6. CASE Head(wire[conn]) = Blank /\ \E content : \E status \in Codes : Answered(status, content)
  BY <1>2, <1>3, <1>6, AnswerKeepsFlow
<1>7. CASE /\ buffer' = b /\ conn' = conn /\ client' = client /\ got' = got
           /\ \/ Head(wire[conn]) # Blank /\ pc' = pc
              \/ Head(wire[conn]) = Blank /\ TakesBody(b) /\ pc' = "body"
  <2>1. phase' = phase /\ asked' = asked /\ backlog' = backlog /\ left' = left
    BY <1>7 DEF client
  <2>2. ThreadTyped'
    BY <1>1, <1>2, <1>4, <1>7 DEF ThreadTyped
  <2>3. ClientsTyped'
    BY <1>1, <1>2, <1>3, <1>7, <2>1 DEF ClientsTyped
  <2>4. \A d \in Client : wire'[d] = IF d = conn THEN w ELSE wire[d]
    BY <1>1, <1>2 DEF ClientsTyped
  <2>5. WireSound'
    <3>1. \A d \in Client : OneBlank(wire'[d])
      BY <1>1, <1>3, <2>4 DEF WireSound
    <3>2. \A d \in Client : phase'[d] \in {"off", "idle"} => AllText(wire'[d])
      BY <1>1, <1>3, <2>1, <2>4 DEF WireSound
    <3> QED
      BY <3>1, <3>2 DEF WireSound, OneBlank, AllText
  <2>6. BodySound'
    <3> SUFFICES ASSUME pc' = "body"
                 PROVE  /\ TakesBody(buffer)' /\ AllText(wire'[conn'])
                        /\ phase'[conn'] \in {"busy", "gone"}
      BY DEF BodySound, AllText
    <3>1. Head(wire[conn]) = Blank /\ TakesBody(b)
      BY <1>2, <1>7
    <3>2. AllText(w) /\ ~AllText(wire[conn])
      BY <1>3, <3>1
    <3>3. phase[conn] \in {"busy", "gone"}
      BY <1>1, <1>2, <3>2 DEF WireSound, ClientsTyped
    <3>4. TakesBody(buffer)' <=> TakesBody(b)
      BY <1>7 DEF TakesBody, Method, Sized, Url, FirstOf
    <3> QED
      BY <1>2, <1>7, <2>1, <2>4, <3>1, <3>2, <3>3, <3>4
  <2> QED
    BY <2>2, <2>3, <2>5, <2>6 DEF FlowInv
<1> QED
  BY <1>5, <1>6, <1>7

\* Receiving a body takes characters from the wire, and answers unless the
\* table is full.
LEMMA RecvBodyKeepsFlow ==
    ASSUME WebInv, RecvBody
    PROVE  FlowInv'
<1>1. /\ ThreadTyped /\ ClientsTyped /\ WireSound /\ BodySound
  BY DEF WebInv
<1>2. pc = "body" /\ conn \in Client /\ polite' = polite
  BY <1>1 DEF RecvBody, ThreadTyped
<1>3. PICK k \in Nat :
             /\ k <= Len(wire[conn])
             /\ wire' = [wire EXCEPT ![conn] = SubSeq(@, k + 1, Len(@))]
             /\ \/ /\ Method(buffer) = "PUT"
                   /\ \E body \in Seq(Char \cup {Nul}) : Put(Url(buffer), body)
                \/ /\ Url(buffer) \in DynamicPath
                   /\ Delete(Url(buffer))
  BY BodyStep
<1> DEFINE w == SubSeq(wire[conn], k + 1, Len(wire[conn]))
<1>4. w \in Seq(Token) /\ AllText(w) /\ OneBlank(w)
  <2>1. /\ wire[conn] \in Seq(Token) /\ OneBlank(wire[conn]) /\ AllText(wire[conn])
        /\ k + 1 \in Nat \ {0} /\ Len(wire[conn]) \in Nat /\ Len(wire[conn]) <= Len(wire[conn])
    BY <1>1, <1>2 DEF ClientsTyped, WireSound, BodySound
  <2> QED
    BY <2>1, PartSound
<1>5. wire' = [wire EXCEPT ![conn] = w]
  BY <1>3
<1> HIDE DEF w
<1>6. \/ \E status \in Codes : Answered(status, <<>>)
      \/ /\ pc' = "undefined" /\ table' = table /\ buffer' = buffer /\ conn' = conn
         /\ client' = client /\ got' = got
  BY <1>3, PutStep, DeleteStep
<1>7. CASE \E status \in Codes : Answered(status, <<>>)
  BY <1>2, <1>4, <1>5, <1>7, AnswerKeepsFlow
<1>8. CASE /\ pc' = "undefined" /\ buffer' = buffer /\ conn' = conn
           /\ client' = client /\ got' = got
  <2>1. phase' = phase /\ asked' = asked /\ backlog' = backlog /\ left' = left
    BY <1>8 DEF client
  <2>2. ThreadTyped'
    BY <1>1, <1>2, <1>8 DEF ThreadTyped
  <2>3. ClientsTyped'
    BY <1>1, <1>2, <1>4, <1>5, <1>8, <2>1 DEF ClientsTyped
  <2>4. \A d \in Client : wire'[d] = IF d = conn THEN w ELSE wire[d]
    BY <1>1, <1>5 DEF ClientsTyped
  <2>5. \A d \in Client : OneBlank(wire'[d])
    BY <1>1, <1>4, <2>4 DEF WireSound
  <2>6. \A d \in Client : phase'[d] \in {"off", "idle"} => AllText(wire'[d])
    BY <1>1, <1>4, <2>1, <2>4 DEF WireSound
  <2>7. WireSound'
    BY <2>5, <2>6 DEF WireSound, OneBlank, AllText
  <2>8. BodySound'
    BY <1>8 DEF BodySound
  <2> QED
    BY <2>2, <2>3, <2>7, <2>8 DEF FlowInv
<1> QED
  BY <1>6, <1>7, <1>8

\* What can happen to the table: a resource is written into its row or, when
\* it has none, into an empty one; a row is emptied; or nothing.
LEMMA TableStep ==
    ASSUME WebInv, [Next]_vars
    PROVE  \/ table' = table
           \/ \E p \in DynamicPath, row \in Slot, body \in Seq(Char \cup {Nul}) : Writes(p, row, body)
           \/ \E row \in Slot : Erases(row)
<1>1. CASE UNCHANGED vars
  BY <1>1 DEF vars
<1>2. ASSUME NEW c \in Client, HangUp(c) \/ \E r \in Asked : Ask(c, r) PROVE table' = table
  BY <1>2 DEF HangUp, Ask
<1>3. CASE Accept \/ RecvEnd \/ BodyEnd
  BY <1>3 DEF Accept, RecvEnd, BodyEnd, Break
<1>4. CASE Recv
  BY <1>4, RecvStep
<1>5. CASE RecvBody
  <2>1. \/ \E body \in Seq(Char \cup {Nul}) : Put(Url(buffer), body)
        \/ Url(buffer) \in DynamicPath /\ Delete(Url(buffer))
    BY <1>5, BodyStep
  <2>2. ASSUME NEW body \in Seq(Char \cup {Nul}), Put(Url(buffer), body)
        PROVE  \/ table' = table
               \/ \E p \in DynamicPath, row \in Slot : Writes(p, row, body)
    BY <2>2, PutStep
  <2>3. ASSUME Url(buffer) \in DynamicPath, Delete(Url(buffer))
        PROVE  table' = table \/ \E row \in Slot : Erases(row)
    BY <2>3, DeleteStep
  <2> QED
    BY <2>1, <2>2, <2>3
<1> QED
  BY <1>1, <1>2, <1>3, <1>4, <1>5 DEF Next, Server, Asked

TableInv == TableTyped /\ OneRowEach /\ EmptyRowsAreEmpty /\ StaticKept

\* A resource gets a row that is its own or empty, never a static one.
LEMMA WriteKeepsTable ==
    ASSUME TableInv, NEW p \in DynamicPath, NEW row \in Slot,
           NEW body \in Seq(Char \cup {Nul}), Writes(p, row, body)
    PROVE  TableInv'
<1>1. /\ Width \in Nat /\ StaticSlot \in [StaticPath -> Slot]
      /\ StaticPath \cap DynamicPath = {} /\ None \notin StaticPath \cup DynamicPath
  BY WebAssumption
<1>2. TableTyped
  BY DEF TableInv
<1>3. \A i \in Slot : /\ path'[i] = IF i = row THEN p ELSE path[i]
                      /\ payload'[i] = IF i = row THEN Copied(payload[row], body) ELSE payload[i]
  BY <1>2 DEF Writes, TableTyped
<1>4. Copied(payload[row], body) \in [1 .. Width -> Char \cup {Nul}]
  <2>1. payload[row] \in [1 .. Width -> Char \cup {Nul}]
    BY <1>2 DEF TableTyped
  <2>2. \A i \in 1 .. Width : ~(i > Len(body)) => body[i] \in Char \cup {Nul}
    BY <1>1
  <2> QED
    BY <2>1, <2>2 DEF Copied
<1>5. TableTyped'
  BY <1>2, <1>4 DEF Writes, TableTyped
<1>6. OneRowEach'
  <2> SUFFICES ASSUME NEW i \in Slot, NEW j \in Slot, path'[i] = path'[j], path'[i] # None
               PROVE  i = j
    BY DEF OneRowEach
  <2>1. OneRowEach
    BY DEF TableInv
  <2>2. \A k \in Slot : path[k] = p => k = row
    BY <1>1, <2>1 DEF Writes, OneRowEach, Rows
  <2> QED
    BY <1>3, <2>1, <2>2 DEF OneRowEach
<1>7. EmptyRowsAreEmpty'
  BY <1>1, <1>3 DEF TableInv, EmptyRowsAreEmpty
<1>8. StaticKept'
  <2> SUFFICES ASSUME NEW q \in StaticPath
               PROVE  /\ path'[StaticSlot[q]] = q
                      /\ Content(payload'[StaticSlot[q]]) = StaticContent[q]
    BY DEF StaticKept, Content
  <2>1. /\ StaticSlot[q] \in Slot /\ path[StaticSlot[q]] = q
        /\ Content(payload[StaticSlot[q]]) = StaticContent[q]
    BY <1>1 DEF TableInv, StaticKept
  <2>2. StaticSlot[q] # row
    BY <1>1, <2>1 DEF Writes
  <2> QED
    BY <1>3, <2>1, <2>2
<1> QED
  BY <1>5, <1>6, <1>7, <1>8 DEF TableInv

\* Only a dynamic resource is ever taken out.
LEMMA EraseKeepsTable ==
    ASSUME TableInv, NEW row \in Slot, Erases(row)
    PROVE  TableInv'
<1>1. /\ StaticSlot \in [StaticPath -> Slot]
      /\ StaticPath \cap DynamicPath = {} /\ None \notin StaticPath \cup DynamicPath
  BY WebAssumption
<1>2. TableTyped
  BY DEF TableInv
<1>3. \A i \in Slot : /\ path'[i] = IF i = row THEN None ELSE path[i]
                      /\ payload'[i] = IF i = row THEN Empty ELSE payload[i]
  BY <1>2 DEF Erases, TableTyped
<1>4. TableTyped'
  BY <1>2, RowsTyped DEF Erases, TableTyped
<1>5. OneRowEach'
  BY <1>3 DEF TableInv, OneRowEach
<1>6. EmptyRowsAreEmpty'
  BY <1>3 DEF TableInv, EmptyRowsAreEmpty
<1>7. StaticKept'
  <2> SUFFICES ASSUME NEW q \in StaticPath
               PROVE  /\ path'[StaticSlot[q]] = q
                      /\ Content(payload'[StaticSlot[q]]) = StaticContent[q]
    BY DEF StaticKept, Content
  <2>1. /\ StaticSlot[q] \in Slot /\ path[StaticSlot[q]] = q
        /\ Content(payload[StaticSlot[q]]) = StaticContent[q]
    BY <1>1 DEF TableInv, StaticKept
  <2>2. StaticSlot[q] # row
    BY <1>1, <2>1 DEF Erases
  <2> QED
    BY <1>3, <2>1, <2>2
<1> QED
  BY <1>4, <1>5, <1>6, <1>7 DEF TableInv

\* Every step keeps the invariant.
LEMMA WebNext == ASSUME WebInv, [Next]_vars PROVE WebInv'
<1>1. TableInv /\ FlowInv
  BY DEF WebInv, TableInv, FlowInv
<1>2. TableInv'
  <2>1. CASE table' = table
    <3>1. path' = path /\ payload' = payload
      BY <2>1 DEF table
    <3>2. TableTyped' /\ OneRowEach' /\ EmptyRowsAreEmpty'
      BY <1>1, <3>1 DEF TableInv, TableTyped, OneRowEach, EmptyRowsAreEmpty
    <3>3. StaticKept'
      BY <1>1, <3>1 DEF TableInv, StaticKept, Content
    <3> QED
      BY <3>2, <3>3 DEF TableInv
  <2>2. ASSUME NEW p \in DynamicPath, NEW row \in Slot, NEW body \in Seq(Char \cup {Nul}),
               Writes(p, row, body)
        PROVE  TableInv'
    BY <1>1, <2>2, WriteKeepsTable
  <2>3. ASSUME NEW row \in Slot, Erases(row) PROVE TableInv'
    BY <1>1, <2>3, EraseKeepsTable
  <2> QED
    BY <2>1, <2>2, <2>3, TableStep
<1>3. FlowInv'
  <2>1. CASE UNCHANGED vars
    <3>1. /\ buffer' = buffer /\ conn' = conn /\ pc' = pc /\ wire' = wire /\ client' = client
          /\ got' = got /\ polite' = polite
      BY <2>1 DEF vars
    <3>2. ThreadTyped' /\ ClientsTyped'
      BY <1>1, <3>1 DEF FlowInv, client, ThreadTyped, ClientsTyped
    <3>3. WireSound'
      BY <1>1, <3>1 DEF FlowInv, client, WireSound, OneBlank, AllText
    <3>4. BodySound'
      BY <1>1, <3>1 DEF FlowInv, client, BodySound, AllText, TakesBody, Method, Sized, Url, FirstOf
    <3> QED
      BY <3>2, <3>3, <3>4 DEF FlowInv
  <2>2. ASSUME NEW c \in Client, HangUp(c) PROVE FlowInv'
    BY <2>2, HangUpKeepsFlow
  <2>3. ASSUME NEW c \in Client, NEW r \in Asked, Ask(c, r) PROVE FlowInv'
    BY <2>3, AskKeepsFlow
  <2>4. CASE Accept \/ RecvEnd \/ BodyEnd
    BY <2>4, QuietKeepsFlow
  <2>5. CASE Recv
    BY <2>5, RecvKeepsFlow
  <2>6. CASE RecvBody
    BY <2>6, RecvBodyKeepsFlow
  <2> QED
    BY <2>1, <2>2, <2>3, <2>4, <2>5, <2>6 DEF Next, Server, Asked
<1> QED
  BY <1>2, <1>3 DEF WebInv, TableInv, FlowInv

\* The table is well formed and the thread and the wires are as described,
\* for every mixture of requests and for clients that leave out what they
\* like.
THEOREM WebInvariant == Spec => []WebInv
<1>1. Init => WebInv
  BY WebInit
<1>2. WebInv /\ [Next]_vars => WebInv'
  BY WebNext
<1> QED
  BY <1>1, <1>2, PTL DEF Spec

\* What main has put into the table stays there, whatever clients send.
THEOREM StaticsStay == Spec => []StaticKept
<1>1. WebInv => StaticKept
  BY DEF WebInv
<1> QED
  BY <1>1, WebInvariant, PTL
-----------------------------------------------------------------------------
(* Polite clients *)

\* What there is between a polite client and the parser.
Exchange(c) == IF phase[c] = "busy" THEN Tokens(asked[c]) ELSE <<>>

PoliteClients ==
    \A c \in Client : IF phase[c] = "busy" THEN asked[c] \in Clean ELSE asked[c] = None

PoliteWires == \A c \in Client : c # conn => wire[c] = Exchange(c)

PoliteBuffer ==
    /\ Len(buffer) <= 3
    /\ pc = "accept" => buffer = <<>>
    /\ pc = "recv" => /\ buffer \o wire[conn] = Exchange(conn)
                      /\ \A i \in DOMAIN buffer : buffer[i] # Blank
    /\ pc = "body" => /\ phase[conn] = "busy"
                      /\ buffer = Header(asked[conn]) /\ wire[conn] = BodyText(asked[conn])

PoliteInv == polite => PoliteClients /\ PoliteWires /\ PoliteBuffer

\* One line after the other is moved from the wire to the buffer.
LEMMA MoveOne ==
    ASSUME NEW s \in Seq(Token), NEW t \in Seq(Token), t # <<>>
    PROVE  Append(s, Head(t)) \o Tail(t) = s \o t
<1>1. /\ Head(t) \in Token /\ Tail(t) \in Seq(Token) /\ Head(t) = t[1]
      /\ Len(Tail(t)) = Len(t) - 1 /\ Len(t) \in Nat \ {0} /\ Len(s) \in Nat
      /\ \A i \in 1 .. Len(t) - 1 : Tail(t)[i] = t[i + 1]
  OBVIOUS
<1>2. Append(s, Head(t)) = s \o <<Head(t)>>
  BY <1>1, SeqFacts!AppendIsConcat
<1>3. <<Head(t)>> \in Seq(Token)
  BY <1>1
<1>4. (s \o <<Head(t)>>) \o Tail(t) = s \o (<<Head(t)>> \o Tail(t))
  BY <1>1, <1>3, SeqFacts!ConcatAssociative
<1>5. <<Head(t)>> \o Tail(t) = t
  <2>1. <<Head(t)>> \o Tail(t) \in Seq(Token) /\ Len(<<Head(t)>> \o Tail(t)) = Len(t)
    BY <1>1, <1>3
  <2>2. \A i \in 1 .. Len(t) : (<<Head(t)>> \o Tail(t))[i] = t[i]
    BY <1>1, <1>3
  <2> QED
    BY <2>1, <2>2, SeqFacts!SeqEqual
<1> QED
  BY <1>2, <1>4, <1>5

\* Only one piece of a request is the blank line.
LEMMA BlankOnce ==
    ASSUME NEW r \in Asked, NEW i \in 1 .. Len(Tokens(r))
    PROVE  Tokens(r)[i] = Blank <=> i = Top(r)
<1>1. /\ Len(Tokens(r)) = Top(r) + Len(r.body)
      /\ \A j \in 1 .. Top(r) : Tokens(r)[j] = Header(r)[j]
      /\ \A j \in 1 .. Len(r.body) : Tokens(r)[Top(r) + j] = Text(r.body[j])
  BY TokensAre
<1>2. Len(r.body) \in Nat /\ r.sized \in BOOLEAN /\ Top(r) \in Nat
  BY RequestTyped DEF Top
<1>3. CASE i <= Top(r)
  <2>1. Tokens(r)[i] = Header(r)[i]
    BY <1>1, <1>2, <1>3
  <2>2. Header(r)[i] = Blank <=> i = Top(r)
    <3>1. CASE r.sized
      <4>1. i \in {1, 2, 3} /\ Top(r) = 3 /\ Header(r) = <<Line(r), Length(Len(r.body)), Blank>>
        BY <1>2, <1>3, <3>1 DEF Top, Header
      <4> QED
        BY <4>1 DEF Line, Length, Blank
    <3>2. CASE ~r.sized
      <4>1. i \in {1, 2} /\ Top(r) = 2 /\ Header(r) = <<Line(r), Blank>>
        BY <1>2, <1>3, <3>2 DEF Top, Header
      <4> QED
        BY <4>1 DEF Line, Blank
    <3> QED
      BY <3>1, <3>2
  <2> QED
    BY <2>1, <2>2
<1>4. CASE i > Top(r)
  <2>1. i - Top(r) \in 1 .. Len(r.body) /\ Top(r) + (i - Top(r)) = i
    BY <1>1, <1>2, <1>4
  <2>2. Tokens(r)[i] = Text(r.body[i - Top(r)])
    BY <1>1, <2>1
  <2> QED
    BY <1>2, <1>4, <2>2 DEF Text, Blank
<1> QED
  BY <1>1, <1>2, <1>3, <1>4

\* A request of which no blank line has come is not longer than its header;
\* with the blank line the buffer is the header and the wire the body.
LEMMA HeaderOrLess ==
    ASSUME NEW r \in Asked, NEW b \in Seq(Token), NEW w \in Seq(Token), b \o w = Tokens(r)
    PROVE  /\ (\A i \in DOMAIN b : b[i] # Blank) => Len(b) <= 2
           /\ b # <<>> /\ b[Len(b)] = Blank => b = Header(r) /\ w = BodyText(r)
<1>1. /\ Len(b) \in Nat /\ Len(w) \in Nat /\ DOMAIN b = 1 .. Len(b)
      /\ Len(Tokens(r)) = Len(b) + Len(w)
      /\ \A i \in 1 .. Len(b) : Tokens(r)[i] = b[i]
      /\ \A i \in 1 .. Len(w) : Tokens(r)[Len(b) + i] = w[i]
  <2>1. /\ Len(b \o w) = Len(b) + Len(w)
        /\ \A i \in 1 .. Len(b) + Len(w) :
              (b \o w)[i] = IF i <= Len(b) THEN b[i] ELSE w[i - Len(b)]
    BY SeqFacts!ConcatProperties
  <2>2. \A i \in 1 .. Len(w) : (b \o w)[Len(b) + i] = w[i]
    <3> TAKE i \in 1 .. Len(w)
    <3>1. Len(b) + i \in 1 .. Len(b) + Len(w) /\ ~(Len(b) + i <= Len(b)) /\ Len(b) + i - Len(b) = i
      OBVIOUS
    <3> QED
      BY <2>1, <3>1
  <2> QED
    BY <2>1, <2>2
<1>2. /\ Len(Tokens(r)) = Top(r) + Len(r.body) /\ Tokens(r) = Header(r) \o BodyText(r)
      /\ \A i \in 1 .. Top(r) : Tokens(r)[i] = Header(r)[i]
      /\ \A i \in 1 .. Len(r.body) : Tokens(r)[Top(r) + i] = Text(r.body[i])
  BY TokensAre
<1>3. Len(r.body) \in Nat /\ Top(r) \in {2, 3} /\ r.body \in Seq(Char)
  BY RequestTyped DEF Top
<1>4. ASSUME \A i \in DOMAIN b : b[i] # Blank PROVE Len(b) <= 2
  <2>1. CASE Len(b) >= Top(r)
    <3>1. Top(r) \in 1 .. Len(Tokens(r)) /\ Top(r) \in 1 .. Len(b)
      BY <1>1, <1>2, <1>3, <2>1
    <3>2. Tokens(r)[Top(r)] = Blank
      BY <3>1, BlankOnce
    <3> QED
      BY <1>1, <1>4, <3>1, <3>2
  <2> QED
    BY <1>1, <1>3, <2>1
<1>5. ASSUME b # <<>>, b[Len(b)] = Blank PROVE b = Header(r) /\ w = BodyText(r)
  <2>1. Len(b) \in 1 .. Len(Tokens(r)) /\ Len(b) \in 1 .. Len(b)
    BY <1>1, <1>5
  <2>2. Len(b) = Top(r)
    BY <1>1, <1>5, <2>1, BlankOnce
  <2>3. Len(w) = Len(r.body)
    BY <1>1, <1>2, <1>3, <2>2
  <2>4. b = Header(r)
    <3>1. Header(r) \in Seq({Line(r), Length(Len(r.body)), Blank}) /\ Len(Header(r)) = Top(r)
      BY HeaderTyped
    <3>2. \A i \in 1 .. Len(b) : b[i] = Header(r)[i]
      BY <1>1, <1>2, <2>2
    <3>3. b \in [1 .. Top(r) -> Token] /\ DOMAIN b = 1 .. Top(r)
      BY <2>2
    <3>4. DOMAIN Header(r) = 1 .. Top(r) /\ Header(r) = [i \in 1 .. Top(r) |-> Header(r)[i]]
      BY <3>1
    <3> QED
      BY <2>2, <3>2, <3>3, <3>4
  <2>5. w = BodyText(r)
    <3>1. \A i \in 1 .. Len(r.body) : w[i] = BodyText(r)[i]
      BY <1>1, <1>2, <2>2, <2>3 DEF BodyText
    <3>2. w = [i \in 1 .. Len(r.body) |-> w[i]]
      BY <2>3
    <3>3. BodyText(r) = [i \in 1 .. Len(r.body) |-> BodyText(r)[i]]
      BY DEF BodyText
    <3> QED
      BY <3>1, <3>2, <3>3
  <2> QED
    BY <2>4, <2>5
<1> QED
  BY <1>4, <1>5

\* What the parser finds in the header of a request is what the client has
\* asked for.
LEMMA HeaderParsed ==
    ASSUME NEW r \in Asked
    PROVE  /\ Method(Header(r)) = r.method /\ Url(Header(r)) = r.path
           /\ Version(Header(r)) = r.version /\ Sized(Header(r)) = r.sized
           /\ ContentLength(Header(r)) = IF r.sized THEN Len(r.body) ELSE 0
<1> DEFINE h == Header(r)
<1>1. /\ Len(h) = Top(r) /\ DOMAIN h = 1 .. Top(r) /\ r.sized \in BOOLEAN
      /\ h \in Seq({Line(r), Length(Len(r.body)), Blank})
  BY HeaderTyped, RequestTyped
<1>2. h \in Seq(Token)
  <2>1. \A i \in 1 .. Top(r) : h[i] = Tokens(r)[i] /\ i \in 1 .. Len(Tokens(r))
    <3>1. /\ Len(Tokens(r)) = Top(r) + Len(r.body) /\ Len(r.body) \in Nat /\ Top(r) \in Nat
          /\ \A i \in 1 .. Top(r) : Tokens(r)[i] = h[i]
      BY TokensAre, RequestTyped DEF Top
    <3> HIDE DEF h
    <3> QED
      BY <3>1
  <2>2. \A i \in 1 .. Top(r) : h[i] \in Token
    BY <2>1, TokensAre
  <2> HIDE DEF h
  <2>3. h \in [1 .. Top(r) -> Token] /\ Top(r) \in Nat
    BY <1>1, <2>2 DEF Top
  <2> QED
    BY <2>3
<1>3. \A i \in DOMAIN h : /\ h[i].kind = "line" <=> i = 1
                          /\ h[i].kind = "length" <=> r.sized /\ i = 2
  <2>1. CASE r.sized
    <3>1. h = <<Line(r), Length(Len(r.body)), Blank>> /\ Top(r) = 3
      BY <2>1 DEF Header, Top
    <3>2. \A i \in DOMAIN h : i \in {1, 2, 3}
      BY <1>1, <3>1
    <3> QED
      BY <2>1, <3>1, <3>2 DEF Line, Length, Blank
  <2>2. CASE ~r.sized
    <3>1. h = <<Line(r), Blank>> /\ Top(r) = 2
      BY <2>2 DEF Header, Top
    <3>2. \A i \in DOMAIN h : i \in {1, 2}
      BY <1>1, <3>1
    <3> QED
      BY <2>2, <3>1, <3>2 DEF Line, Blank
  <2> QED
    BY <1>1, <2>1, <2>2
<1>4. h[1] = Line(r) /\ 1 \in DOMAIN h
  BY <1>1 DEF Header, Top
<1>5. r.sized => h[2] = Length(Len(r.body)) /\ 2 \in DOMAIN h
  BY <1>1 DEF Header, Top
<1> HIDE DEF h
<1>6. FirstOf(h, "line") = Line(r)
  <2>1. PICK i \in DOMAIN h : h[i].kind = "line" /\ FirstOf(h, "line") = h[i]
    BY <1>2, <1>3, <1>4, FirstIs
  <2> QED
    BY <1>3, <1>4, <2>1
<1>7. Sized(h) <=> r.sized
  BY <1>3, <1>5 DEF Sized
<1>8. ASSUME r.sized PROVE FirstOf(h, "length") = Length(Len(r.body))
  <2>1. PICK i \in DOMAIN h : h[i].kind = "length" /\ FirstOf(h, "length") = h[i]
    BY <1>2, <1>3, <1>5, <1>8, FirstIs
  <2> QED
    BY <1>3, <1>5, <1>8, <2>1
<1>9. Method(h) = r.method
  BY <1>4, <1>6 DEF Method, IsText, Line
<1>10. Url(h) = r.path /\ Version(h) = r.version
  BY <1>6 DEF Url, Version, Line
<1>11. ContentLength(h) = IF r.sized THEN Len(r.body) ELSE 0
  BY <1>7, <1>8 DEF ContentLength, Length
<1>12. Sized(h) = r.sized
  BY <1>1, <1>7 DEF Sized
<1> QED
  BY <1>9, <1>10, <1>11, <1>12 DEF h

\* The body of a polite request.
LEMMA BodyTyped ==
    ASSUME NEW r \in Asked
    PROVE  /\ BodyText(r) \in Seq(Token) /\ Len(BodyText(r)) = Len(r.body)
           /\ BodyText(r) = <<>> <=> r.body = <<>>
<1>1. /\ r.body \in Seq(Char) /\ Len(r.body) \in Nat /\ Top(r) \in Nat
  BY RequestTyped DEF Top
<1>2. \A i \in 1 .. Len(r.body) : Text(r.body[i]) \in Token
  <2> TAKE i \in 1 .. Len(r.body)
  <2>1. /\ Tokens(r) \in Seq(Token) /\ Tokens(r)[Top(r) + i] = Text(r.body[i])
        /\ Len(Tokens(r)) = Top(r) + Len(r.body)
    BY TokensAre
  <2>2. Top(r) + i \in 1 .. Len(Tokens(r))
    BY <1>1, <2>1
  <2> QED
    BY <2>1, <2>2
<1>3. BodyText(r) \in [1 .. Len(r.body) -> Token]
  BY <1>2 DEF BodyText
<1>4. BodyText(r) \in Seq(Token) /\ Len(BodyText(r)) = Len(r.body)
  BY <1>1, <1>3
<1>5. BodyText(r) = <<>> <=> Len(BodyText(r)) = 0
  BY <1>4
<1>6. r.body = <<>> <=> Len(r.body) = 0
  BY <1>1
<1> QED
  BY <1>4, <1>5, <1>6

\* A state in which every request is under way as a whole.
PoliteState == polite /\ WebInv /\ PoliteInv

\* Nothing is left of a request when it is answered.
LEMMA AnswerKeepsPolite ==
    ASSUME PoliteState, conn \in Client, phase[conn] = "busy",
           NEW status, NEW content, Answered(status, content),
           wire' = [wire EXCEPT ![conn] = <<>>]
    PROVE  PoliteClients' /\ PoliteWires' /\ PoliteBuffer'
<1>1. /\ ClientsTyped /\ PoliteClients /\ PoliteWires
  BY DEF PoliteState, WebInv, PoliteInv
<1>2. \A c \in Client :
         /\ phase'[c] = IF c = conn THEN "idle" ELSE phase[c]
         /\ asked'[c] = IF c = conn THEN None ELSE asked[c]
         /\ wire'[c] = IF c = conn THEN <<>> ELSE wire[c]
  BY <1>1 DEF Answered, ClientsTyped
<1>3. /\ conn' = conn /\ pc' = "recv" /\ buffer' = <<>>
  BY DEF Answered
<1>4. PoliteClients'
  BY <1>1, <1>2 DEF PoliteClients
<1>5. PoliteWires'
  BY <1>1, <1>2, <1>3 DEF PoliteWires, Exchange
<1>6. PoliteBuffer'
  <2>1. Len(buffer') <= 3 /\ \A i \in DOMAIN buffer' : buffer'[i] # Blank
    BY <1>3
  <2>2. wire'[conn'] = <<>> /\ Exchange(conn)' = <<>> /\ buffer' \o wire'[conn'] = <<>>
    <3>1. wire'[conn'] = <<>> /\ phase'[conn'] = "idle"
      BY <1>2, <1>3
    <3>2. <<>> \o <<>> = <<>>
      OBVIOUS
    <3> QED
      BY <1>2, <1>3, <3>1, <3>2 DEF Exchange
  <2>3. Exchange(conn)' = IF phase'[conn'] = "busy" THEN Tokens(asked'[conn']) ELSE <<>>
    BY DEF Exchange
  <2> QED
    BY <1>3, <2>1, <2>2, <2>3 DEF PoliteBuffer, Exchange
<1> QED
  BY <1>4, <1>5, <1>6

\* A polite client asks when it has its answer, and nothing of the request
\* before is left.
LEMMA AskKeepsPolite ==
    ASSUME PoliteState, NEW c \in Client, NEW r \in Asked, Ask(c, r)
    PROVE  PoliteClients' /\ PoliteWires' /\ PoliteBuffer'
<1>1. /\ ClientsTyped /\ ThreadTyped /\ PoliteClients /\ PoliteWires /\ PoliteBuffer
  BY DEF PoliteState, WebInv, PoliteInv
<1>2. /\ r \in Clean /\ phase[c] \in {"off", "idle"} /\ Exchange(c) = <<>>
      /\ conn' = conn /\ pc' = pc /\ buffer' = buffer
  BY DEF PoliteState, Ask, Exchange
<1>3. \A d \in Client :
         /\ phase'[d] = IF d = c THEN "busy" ELSE phase[d]
         /\ asked'[d] = IF d = c THEN r ELSE asked[d]
         /\ wire'[d] = IF d = c THEN wire[c] \o Tokens(r) ELSE wire[d]
  BY <1>1 DEF Ask, ClientsTyped
<1>4. Tokens(r) \in Seq(Token) /\ <<>> \o Tokens(r) = Tokens(r)
  <2>1. Tokens(r) \in Seq(Token)
    BY TokensAre
  <2> QED
    BY <2>1, SeqFacts!ConcatEmptySeq
<1>5. PoliteClients'
  BY <1>1, <1>2, <1>3 DEF PoliteClients
<1>6. PoliteWires'
  BY <1>1, <1>2, <1>3, <1>4 DEF PoliteWires, Exchange
<1>7. PoliteBuffer'
  <2>1. Len(buffer') <= 3 /\ (pc' = "accept" => buffer' = <<>>)
    BY <1>1, <1>2 DEF PoliteBuffer
  <2>2. ASSUME pc' = "recv"
        PROVE  /\ buffer' \o wire'[conn'] = IF phase'[conn'] = "busy" THEN Tokens(asked'[conn']) ELSE <<>>
               /\ \A i \in DOMAIN buffer' : buffer'[i] # Blank
    <3>1. /\ conn \in Client /\ buffer \in Seq(Token) /\ wire[conn] \in Seq(Token)
          /\ buffer \o wire[conn] = Exchange(conn) /\ \A i \in DOMAIN buffer : buffer[i] # Blank
      BY <1>1, <1>2, <2>2 DEF ThreadTyped, ClientsTyped, PoliteBuffer
    <3>2. CASE conn = c
      <4>1. buffer \o wire[c] = <<>>
        BY <1>2, <3>1, <3>2
      <4>2. buffer = <<>> /\ wire[c] = <<>>
        BY <3>1, <3>2, <4>1, SeqFacts!ConcatEqualIffEmpty
      <4>3. wire'[conn'] = Tokens(r)
        BY <1>2, <1>3, <1>4, <3>2, <4>2
      <4> QED
        BY <1>2, <1>3, <1>4, <3>1, <3>2, <4>2, <4>3
    <3>3. CASE conn # c
      BY <1>2, <1>3, <3>1, <3>3 DEF Exchange
    <3> QED
      BY <3>2, <3>3
  <2>3. ASSUME pc' = "body"
        PROVE  /\ phase'[conn'] = "busy" /\ buffer' = Header(asked'[conn'])
               /\ wire'[conn'] = BodyText(asked'[conn'])
    <3>1. /\ conn \in Client /\ phase[conn] = "busy" /\ buffer = Header(asked[conn])
          /\ wire[conn] = BodyText(asked[conn])
      BY <1>1, <1>2, <2>3 DEF ThreadTyped, PoliteBuffer
    <3> QED
      BY <1>2, <1>3, <3>1
  <2> QED
    BY <2>1, <2>2, <2>3 DEF PoliteBuffer, Exchange
<1> QED
  BY <1>5, <1>6, <1>7

\* And hangs up when nothing is under way.
LEMMA HangUpKeepsPolite ==
    ASSUME PoliteState, NEW c \in Client, HangUp(c)
    PROVE  PoliteClients' /\ PoliteWires' /\ PoliteBuffer'
<1>1. /\ ClientsTyped /\ ThreadTyped /\ PoliteClients /\ PoliteWires /\ PoliteBuffer
  BY DEF PoliteState, WebInv, PoliteInv
<1>2. /\ phase[c] = "idle" /\ wire[c] \in Seq(Token)
      /\ conn' = conn /\ pc' = pc /\ buffer' = buffer /\ asked' = asked
  BY <1>1 DEF PoliteState, HangUp, ClientsTyped
<1>3. wire' = [wire EXCEPT ![c] = SubSeq(@, 1, Len(wire[c]))]
  BY <1>2 DEF HangUp
<1>4. SubSeq(wire[c], 1, Len(wire[c])) = wire[c]
  BY <1>2, SeqFacts!SubSeqFull
<1>5. \A d \in Client :
         /\ phase'[d] = IF d = c THEN "gone" ELSE phase[d]
         /\ wire'[d] = wire[d]
  BY <1>1, <1>3, <1>4 DEF HangUp, ClientsTyped
<1>6. PoliteClients'
  BY <1>1, <1>2, <1>5 DEF PoliteClients
<1>7. \A d \in Client : Exchange(d) = IF phase'[d] = "busy" THEN Tokens(asked'[d]) ELSE <<>>
  BY <1>2, <1>5 DEF Exchange
<1>8. PoliteWires'
  BY <1>1, <1>2, <1>5, <1>7 DEF PoliteWires, Exchange
<1>9. PoliteBuffer'
  <2>1. pc # "accept" => conn \in Client
    BY <1>1 DEF ThreadTyped
  <2>2. pc = "body" => conn # c
    BY <1>1, <1>2 DEF PoliteBuffer
  <2> QED
    BY <1>1, <1>2, <1>5, <1>7, <2>1, <2>2 DEF PoliteBuffer, Exchange
<1> QED
  BY <1>6, <1>8, <1>9

\* Accepting finds a whole request or none, and a connection is closed only
\* with nothing left of one.
LEMMA QuietKeepsPolite ==
    ASSUME GoodManners, PoliteState, Accept \/ RecvEnd \/ BodyEnd
    PROVE  PoliteClients' /\ PoliteWires' /\ PoliteBuffer'
<1>1. /\ ClientsTyped /\ ThreadTyped /\ PoliteClients /\ PoliteWires /\ PoliteBuffer
  BY DEF PoliteState, WebInv, PoliteInv
<1>2. wire' = wire /\ phase' = phase /\ asked' = asked
  BY DEF Accept, RecvEnd, BodyEnd, Break, client
<1>3. \A d \in Client : Exchange(d) = IF phase'[d] = "busy" THEN Tokens(asked'[d]) ELSE <<>>
  BY <1>2 DEF Exchange
<1>4. PoliteClients'
  BY <1>1, <1>2 DEF PoliteClients
<1>5. CASE Accept
  <2>1. /\ pc = "accept" /\ conn = None /\ buffer = <<>> /\ conn' \in Client
        /\ pc' = "recv" /\ buffer' = <<>>
    BY <1>1, <1>5 DEF Accept, ThreadTyped, ClientsTyped, PoliteBuffer
  <2>2. None \notin Client
    BY WebAssumption
  <2>3. \A d \in Client : wire[d] = Exchange(d)
    BY <1>1, <2>1, <2>2 DEF PoliteWires
  <2>4. PoliteWires'
    BY <1>2, <1>3, <2>3 DEF PoliteWires, Exchange
  <2>5. wire[conn'] \in Seq(Token) /\ <<>> \o wire[conn'] = wire[conn']
    <3>1. wire[conn'] \in Seq(Token)
      BY <1>1, <2>1 DEF ClientsTyped
    <3> QED
      BY <3>1, SeqFacts!ConcatEmptySeq
  <2>6. Len(buffer') <= 3 /\ \A i \in DOMAIN buffer' : buffer'[i] # Blank
    BY <2>1
  <2>7. buffer' \o wire'[conn'] = IF phase'[conn'] = "busy" THEN Tokens(asked'[conn']) ELSE <<>>
    BY <1>2, <1>3, <2>1, <2>3, <2>5
  <2>8. PoliteBuffer'
    BY <2>1, <2>6, <2>7 DEF PoliteBuffer, Exchange
  <2> QED
    BY <1>4, <2>4, <2>8
<1>6. CASE RecvEnd \/ BodyEnd
  <2>1. /\ conn \in Client /\ conn' = None /\ pc' = "accept" /\ buffer' = buffer
    BY <1>1, <1>6 DEF RecvEnd, BodyEnd, Break, ThreadTyped
  <2>2. ~BodyEnd
    <3> SUFFICES ASSUME BodyEnd PROVE FALSE
      OBVIOUS
    <3> DEFINE r == asked[conn]
    <3>1. /\ pc = "body" /\ phase[conn] = "busy" /\ buffer = Header(r)
          /\ ContentLength(buffer) = 0 /\ TakesBody(buffer)
      BY <1>1 DEF BodyEnd, PoliteBuffer, PoliteState, WebInv, BodySound
    <3>2. r \in Clean
      BY <1>1, <2>1, <3>1 DEF PoliteClients
    <3> HIDE DEF r
    <3>3. r \in Asked
      BY <3>2 DEF Asked
    <3>4. /\ Method(buffer) = r.method /\ Url(buffer) = r.path /\ Sized(buffer) = r.sized
          /\ ContentLength(buffer) = IF r.sized THEN Len(r.body) ELSE 0
      BY <3>1, <3>3, HeaderParsed
    <3>5. HasBody(r)
      BY <3>1, <3>4 DEF TakesBody, HasBody
    <3>6. r.body # <<>> /\ r.sized
      BY <3>2, <3>5 DEF GoodManners
    <3>7. r.body \in Seq(Char)
      BY <3>3, RequestTyped
    <3> QED
      BY <3>1, <3>4, <3>6, <3>7
  <2>3. pc = "recv" /\ wire[conn] = <<>> /\ phase[conn] = "gone"
    BY <1>6, <2>2 DEF RecvEnd
  <2>4. Exchange(conn) = <<>> /\ buffer \o wire[conn] = <<>> /\ buffer \in Seq(Token)
    BY <1>1, <2>3 DEF Exchange, PoliteBuffer, ThreadTyped
  <2>5. buffer = <<>>
    BY <2>3, <2>4, SeqFacts!ConcatEmptySeq
  <2>6. PoliteWires'
    <3>1. \A d \in Client : wire[d] = Exchange(d)
      BY <1>1, <2>3, <2>4 DEF PoliteWires
    <3> QED
      BY <1>2, <1>3, <3>1 DEF PoliteWires, Exchange
  <2>7. PoliteBuffer'
    BY <1>1, <2>1, <2>5 DEF PoliteBuffer
  <2> QED
    BY <1>4, <2>6, <2>7
<1> QED
  BY <1>5, <1>6

\* While lines come, buffer and wire are the request together; with the
\* blank line, the buffer is its header.
LEMMA RecvBlank ==
    ASSUME PoliteState, Recv
    PROVE  /\ phase[conn] = "busy" /\ asked[conn] \in Clean /\ conn \in Client
           /\ Append(buffer, Head(wire[conn])) \in Seq(Token) /\ Tail(wire[conn]) \in Seq(Token)
           /\ Append(buffer, Head(wire[conn])) \o Tail(wire[conn]) = Tokens(asked[conn])
           /\ IF Head(wire[conn]) = Blank
              THEN /\ Append(buffer, Head(wire[conn])) = Header(asked[conn])
                   /\ Tail(wire[conn]) = BodyText(asked[conn])
              ELSE /\ Len(Append(buffer, Head(wire[conn]))) <= 2
                   /\ \A i \in DOMAIN Append(buffer, Head(wire[conn])) :
                         Append(buffer, Head(wire[conn]))[i] # Blank
<1> DEFINE w == Tail(wire[conn])
           b == Append(buffer, Head(wire[conn]))
           r == asked[conn]
<1>1. /\ ClientsTyped /\ ThreadTyped /\ PoliteClients /\ PoliteWires /\ PoliteBuffer
  BY DEF PoliteState, WebInv, PoliteInv
<1>2. /\ pc = "recv" /\ conn \in Client /\ wire[conn] \in Seq(Token) /\ wire[conn] # <<>>
      /\ buffer \in Seq(Token)
  BY <1>1, RecvStep DEF PoliteState, ThreadTyped
<1>3. /\ buffer \o wire[conn] = Exchange(conn) /\ \A i \in DOMAIN buffer : buffer[i] # Blank
  BY <1>1, <1>2 DEF PoliteBuffer
<1>4. buffer \o wire[conn] # <<>>
  BY <1>2, SeqFacts!ConcatEqualIffEmpty
<1>5. phase[conn] = "busy" /\ buffer \o wire[conn] = Tokens(r)
  BY <1>3, <1>4 DEF Exchange
<1>6. r \in Clean /\ r \in Asked
  BY <1>1, <1>2, <1>5 DEF PoliteClients, Asked
<1>7. /\ Head(wire[conn]) \in Token /\ w \in Seq(Token)
  BY <1>2, TailSound
<1>8. /\ b \in Seq(Token) /\ b # <<>> /\ Len(b) = Len(buffer) + 1 /\ b[Len(b)] = Head(wire[conn])
      /\ \A i \in 1 .. Len(buffer) : b[i] = buffer[i]
  BY <1>2, <1>7, SeqFacts!AppendProperties
<1>9. b \o w = Tokens(r)
  BY <1>2, <1>5, MoveOne
<1> HIDE DEF b, w, r
<1>10. CASE Head(wire[conn]) = Blank
  <2>1. b = Header(r) /\ w = BodyText(r)
    BY <1>6, <1>7, <1>8, <1>9, <1>10, HeaderOrLess
  <2> QED
    BY <1>2, <1>5, <1>6, <1>7, <1>8, <1>9, <1>10, <2>1 DEF b, w, r
<1>11. CASE Head(wire[conn]) # Blank
  <2>1. DOMAIN b = 1 .. Len(buffer) + 1 /\ DOMAIN buffer = 1 .. Len(buffer) /\ Len(buffer) \in Nat
    BY <1>2, <1>8
  <2>2. \A i \in DOMAIN b : b[i] # Blank
    BY <1>3, <1>8, <1>11, <2>1
  <2>3. Len(b) <= 2
    BY <1>6, <1>7, <1>8, <1>9, <2>2, HeaderOrLess
  <2> QED
    BY <1>2, <1>5, <1>6, <1>7, <1>8, <1>9, <1>11, <2>2, <2>3 DEF b, w, r
<1> QED
  BY <1>10, <1>11

\* A header is answered at once only when no body goes with it.
LEMMA RecvKeepsPolite ==
    ASSUME GoodManners, PoliteState, Recv
    PROVE  PoliteClients' /\ PoliteWires' /\ PoliteBuffer'
<1> DEFINE w == Tail(wire[conn])
           b == Append(buffer, Head(wire[conn]))
           r == asked[conn]
<1>1. /\ ClientsTyped /\ ThreadTyped /\ PoliteClients /\ PoliteWires /\ PoliteBuffer
  BY DEF PoliteState, WebInv, PoliteInv
<1>2. /\ phase[conn] = "busy" /\ r \in Clean /\ conn \in Client /\ b \in Seq(Token)
      /\ w \in Seq(Token) /\ b \o w = Tokens(r)
      /\ Head(wire[conn]) = Blank => b = Header(r) /\ w = BodyText(r)
      /\ Head(wire[conn]) # Blank => Len(b) <= 2 /\ \A i \in DOMAIN b : b[i] # Blank
  BY RecvBlank
<1>3. r \in Asked
  BY <1>2 DEF Asked
<1>4. /\ pc = "recv" /\ wire' = [wire EXCEPT ![conn] = w]
      /\ \/ /\ Head(wire[conn]) # Blank
            /\ buffer' = b /\ conn' = conn /\ pc' = pc /\ client' = client
         \/ /\ Head(wire[conn]) = Blank
            /\ buffer' = b /\ conn' = conn /\ pc' = "body" /\ client' = client
         \/ /\ Head(wire[conn]) = Blank /\ ~TakesBody(b)
            /\ \E content : \E status \in Codes : Answered(status, content)
  BY RecvStep DEF PoliteState
<1> HIDE DEF b, w, r
<1>5. CASE /\ buffer' = b /\ conn' = conn /\ client' = client
           /\ \/ Head(wire[conn]) # Blank /\ pc' = pc
              \/ Head(wire[conn]) = Blank /\ pc' = "body"
  <2>1. phase' = phase /\ asked' = asked
    BY <1>5 DEF client
  <2>2. \A d \in Client : wire'[d] = IF d = conn THEN w ELSE wire[d]
    BY <1>1, <1>4 DEF ClientsTyped
  <2>3. PoliteClients'
    BY <1>1, <2>1 DEF PoliteClients
  <2>4. PoliteWires'
    BY <1>1, <1>5, <2>1, <2>2 DEF PoliteWires, Exchange
  <2>5. PoliteBuffer'
    <3>1. CASE Head(wire[conn]) # Blank /\ pc' = pc
      <4>1. buffer' \o wire'[conn'] = IF phase'[conn'] = "busy" THEN Tokens(asked'[conn']) ELSE <<>>
        BY <1>2, <1>5, <2>1, <2>2 DEF r
      <4>2. Len(buffer') <= 3 /\ \A i \in DOMAIN buffer' : buffer'[i] # Blank
        BY <1>2, <1>5, <3>1
      <4> QED
        BY <1>4, <3>1, <4>1, <4>2 DEF PoliteBuffer, Exchange
    <3>2. CASE Head(wire[conn]) = Blank /\ pc' = "body"
      <4>1. buffer' = Header(asked'[conn']) /\ wire'[conn'] = BodyText(asked'[conn'])
        BY <1>2, <1>5, <2>1, <2>2, <3>2 DEF r
      <4>2. Len(buffer') <= 3
        <5>1. buffer' = Header(r)
          BY <1>2, <1>5, <3>2
        <5>2. Len(Header(r)) = Top(r)
          BY <1>3, HeaderTyped
        <5>3. Top(r) <= 3
          BY DEF Top
        <5> QED
          BY <5>1, <5>2, <5>3
      <4> QED
        BY <1>2, <1>5, <2>1, <3>2, <4>1, <4>2 DEF PoliteBuffer
    <3> QED
      BY <1>5, <3>1, <3>2
  <2> QED
    BY <2>3, <2>4, <2>5
<1>6. CASE /\ Head(wire[conn]) = Blank /\ ~TakesBody(b)
           /\ \E content : \E status \in Codes : Answered(status, content)
  <2>1. b = Header(r) /\ w = BodyText(r)
    BY <1>2, <1>6
  <2>2. ~HasBody(r)
    <3>1. Method(b) = r.method /\ Url(b) = r.path /\ Sized(b) = r.sized
      BY <1>3, <2>1, HeaderParsed
    <3> QED
      BY <1>6, <3>1 DEF TakesBody, HasBody
  <2>3. r.body = <<>>
    BY <1>2, <2>2 DEF GoodManners
  <2>4. w = <<>>
    BY <1>3, <2>1, <2>3, BodyTyped
  <2>5. wire' = [wire EXCEPT ![conn] = <<>>]
    BY <1>4, <2>4
  <2> QED
    BY <1>2, <1>6, <2>5, AnswerKeepsPolite
<1> QED
  BY <1>4, <1>5, <1>6

\* The body of a polite client is there as a whole.
LEMMA BodyIsThere ==
    ASSUME GoodManners, PoliteState, RecvBody
    PROVE  /\ phase[conn] = "busy" /\ asked[conn] \in Clean /\ conn \in Client
           /\ buffer = Header(asked[conn]) /\ HasBody(asked[conn])
           /\ ContentLength(buffer) = Len(asked[conn].body)
           /\ wire[conn] = BodyText(asked[conn]) /\ asked[conn].sized
<1> DEFINE r == asked[conn]
<1>1. /\ ThreadTyped /\ PoliteClients /\ PoliteBuffer /\ BodySound
  BY DEF PoliteState, WebInv, PoliteInv
<1>2. pc = "body" /\ conn \in Client
  BY <1>1 DEF RecvBody, ThreadTyped
<1>3. /\ phase[conn] = "busy" /\ buffer = Header(r) /\ wire[conn] = BodyText(r)
      /\ TakesBody(buffer) /\ r \in Clean
  BY <1>1, <1>2 DEF PoliteBuffer, BodySound, PoliteClients
<1> HIDE DEF r
<1>4. r \in Asked
  BY <1>3 DEF Asked
<1>5. /\ Method(buffer) = r.method /\ Url(buffer) = r.path /\ Sized(buffer) = r.sized
      /\ ContentLength(buffer) = IF r.sized THEN Len(r.body) ELSE 0
  BY <1>3, <1>4, HeaderParsed
<1>6. HasBody(r)
  BY <1>3, <1>5 DEF TakesBody, HasBody
<1>7. r.sized
  BY <1>3, <1>6 DEF GoodManners
<1> QED
  BY <1>2, <1>3, <1>5, <1>6, <1>7 DEF r

\* So receiving it leaves nothing under way.
LEMMA RecvBodyKeepsPolite ==
    ASSUME GoodManners, PoliteState, RecvBody
    PROVE  PoliteClients' /\ PoliteWires' /\ PoliteBuffer'
<1>1. /\ ClientsTyped /\ ThreadTyped /\ PoliteClients /\ PoliteWires /\ PoliteBuffer
  BY DEF PoliteState, WebInv, PoliteInv
<1>2. /\ phase[conn] = "busy" /\ asked[conn] \in Asked /\ conn \in Client
      /\ ContentLength(buffer) = Len(asked[conn].body)
      /\ wire[conn] = BodyText(asked[conn])
  BY BodyIsThere DEF Asked
<1>3. PICK k \in Nat :
         /\ k = ContentLength(buffer)
         /\ wire' = [wire EXCEPT ![conn] = SubSeq(@, k + 1, Len(@))]
         /\ \/ \E body \in Seq(Char \cup {Nul}) : Put(Url(buffer), body)
            \/ Url(buffer) \in DynamicPath /\ Delete(Url(buffer))
  BY BodyStep DEF PoliteState
<1>4. SubSeq(wire[conn], k + 1, Len(wire[conn])) = <<>>
  <2>1. Len(wire[conn]) = k
    BY <1>2, <1>3, BodyTyped
  <2>2. k + 1 \in Int /\ k \in Int /\ k < k + 1
    BY <1>3
  <2> QED
    BY <2>1, <2>2, SeqFacts!SubSeqEmpty
<1>5. wire' = [wire EXCEPT ![conn] = <<>>]
  BY <1>3, <1>4
<1>6. \/ \E status \in Codes : Answered(status, <<>>)
      \/ pc' = "undefined" /\ buffer' = buffer /\ conn' = conn /\ client' = client
  BY <1>3, PutStep, DeleteStep
<1>7. CASE \E status \in Codes : Answered(status, <<>>)
  BY <1>2, <1>5, <1>7, AnswerKeepsPolite
<1>8. CASE pc' = "undefined" /\ buffer' = buffer /\ conn' = conn /\ client' = client
  <2>1. phase' = phase /\ asked' = asked
    BY <1>8 DEF client
  <2>2. \A d \in Client : d # conn => wire'[d] = wire[d]
    BY <1>1, <1>5 DEF ClientsTyped
  <2>3. PoliteClients'
    BY <1>1, <2>1 DEF PoliteClients
  <2>4. PoliteWires'
    BY <1>1, <1>8, <2>1, <2>2 DEF PoliteWires, Exchange
  <2>5. PoliteBuffer'
    BY <1>1, <1>8 DEF PoliteBuffer
  <2> QED
    BY <2>3, <2>4, <2>5
<1> QED
  BY <1>6, <1>7, <1>8

\* Requests that are sent as a whole are received as a whole.
LEMMA PoliteNext == ASSUME GoodManners, WebInv, PoliteInv, [Next]_vars PROVE PoliteInv'
<1> SUFFICES ASSUME polite' PROVE PoliteClients' /\ PoliteWires' /\ PoliteBuffer'
  BY DEF PoliteInv
<1>1. polite' = polite
  BY DEF Next, Server, Ask, HangUp, Accept, Recv, RecvEnd, RecvBody, BodyEnd, vars
<1>2. PoliteState
  BY <1>1 DEF PoliteState
<1>3. CASE UNCHANGED vars
  <2>1. PoliteClients /\ PoliteWires /\ PoliteBuffer
    BY <1>2 DEF PoliteState, PoliteInv
  <2>2. /\ buffer' = buffer /\ conn' = conn /\ pc' = pc /\ wire' = wire
        /\ phase' = phase /\ asked' = asked
    BY <1>3 DEF vars, client
  <2> QED
    BY <2>1, <2>2 DEF PoliteClients, PoliteWires, PoliteBuffer, Exchange
<1>4. ASSUME NEW c \in Client, HangUp(c) PROVE PoliteClients' /\ PoliteWires' /\ PoliteBuffer'
  BY <1>2, <1>4, HangUpKeepsPolite
<1>5. ASSUME NEW c \in Client, NEW r \in Asked, Ask(c, r)
      PROVE  PoliteClients' /\ PoliteWires' /\ PoliteBuffer'
  BY <1>2, <1>5, AskKeepsPolite
<1>6. CASE Accept \/ RecvEnd \/ BodyEnd
  BY <1>2, <1>6, QuietKeepsPolite
<1>7. CASE Recv
  BY <1>2, <1>7, RecvKeepsPolite
<1>8. CASE RecvBody
  BY <1>2, <1>8, RecvBodyKeepsPolite
<1> QED
  BY <1>3, <1>4, <1>5, <1>6, <1>7, <1>8 DEF Next, Server, Asked

\* Before any request there is nothing under way.
LEMMA PoliteInit == ASSUME Init PROVE PoliteInv
<1>1. None \notin Client
  BY WebAssumption
<1> QED
  BY <1>1 DEF Init, PoliteInv, PoliteClients, PoliteWires, PoliteBuffer, Exchange

\* The table and the buffer of the server are well formed: whatever clients
\* leave out, and with polite clients never more than a header in the
\* buffer.
THEOREM ServerIsWellFormed == ASSUME GoodManners PROVE Spec => []WellFormed
<1>1. Init => WebInv /\ PoliteInv
  BY WebInit, PoliteInit
<1>2. WebInv /\ PoliteInv /\ [Next]_vars => (WebInv /\ PoliteInv)'
  BY WebNext, PoliteNext
<1>3. WebInv /\ PoliteInv => WellFormed
  BY DEF WebInv, PoliteInv, PoliteBuffer, WellFormed, TypeOK, TableTyped, ThreadTyped,
         ClientsTyped, Codes, Asked
<1> QED
  BY <1>1, <1>2, <1>3, PTL DEF Spec
-----------------------------------------------------------------------------
(* One table of resources *)

\* What the rows store, as a function of the paths and the payloads.
Paths(pa) == {pa[i] : i \in Slot} \ {None}

TabOf(pa, pl) == [p \in Paths(pa) |-> Content(pl[CHOOSE i \in Slot : pa[i] = p])]

OneRow(pa) == \A i, j \in Slot : pa[i] = pa[j] /\ pa[i] # None => i = j

\* The content of a path is that of its row.
LEMMA TabIs ==
    ASSUME NEW pa, NEW pl, OneRow(pa)
    PROVE  /\ DOMAIN TabOf(pa, pl) = Paths(pa)
           /\ \A i \in Slot : pa[i] # None => TabOf(pa, pl)[pa[i]] = Content(pl[i])
<1>1. DOMAIN TabOf(pa, pl) = Paths(pa)
  BY DEF TabOf
<1>2. ASSUME NEW i \in Slot, pa[i] # None PROVE TabOf(pa, pl)[pa[i]] = Content(pl[i])
  <2>1. (CHOOSE j \in Slot : pa[j] = pa[i]) = i
    BY <1>2 DEF OneRow
  <2>2. TabOf(pa, pl)[pa[i]] = Content(pl[CHOOSE j \in Slot : pa[j] = pa[i]])
    BY <1>2 DEF TabOf, Paths
  <2> QED
    BY <2>1, <2>2
<1> QED
  BY <1>1, <1>2

\* A table with one path more, or with another content at a path it has;
\* and a table without a path.
Stored(t, p, c) == [q \in DOMAIN t \cup {p} |-> IF q = p THEN c ELSE t[q]]
Dropped(t, p)   == [q \in DOMAIN t \ {p} |-> t[q]]

\* Writing a row adds a path to the table or changes its content.
LEMMA TabWrite ==
    ASSUME NEW pa, NEW pl, NEW pa2, NEW pl2, OneRow(pa), OneRow(pa2),
           NEW row \in Slot, NEW p, NEW x, p # None,
           pa[row] = p \/ pa[row] = None,
           \A i \in Slot : pa2[i] = IF i = row THEN p ELSE pa[i],
           \A i \in Slot : pl2[i] = IF i = row THEN x ELSE pl[i]
    PROVE  TabOf(pa2, pl2) = Stored(TabOf(pa, pl), p, Content(x))
<1>1. /\ DOMAIN TabOf(pa, pl) = Paths(pa)
      /\ \A i \in Slot : pa[i] # None => TabOf(pa, pl)[pa[i]] = Content(pl[i])
  BY TabIs
<1>2. /\ DOMAIN TabOf(pa2, pl2) = Paths(pa2)
      /\ \A i \in Slot : pa2[i] # None => TabOf(pa2, pl2)[pa2[i]] = Content(pl2[i])
  BY TabIs
<1>3. Paths(pa2) = Paths(pa) \cup {p}
  BY DEF Paths
<1>4. ASSUME NEW q \in Paths(pa2)
      PROVE  TabOf(pa2, pl2)[q] = IF q = p THEN Content(x) ELSE TabOf(pa, pl)[q]
  <2>1. PICK i \in Slot : q = pa2[i] /\ q # None
    BY <1>4 DEF Paths
  <2>2. TabOf(pa2, pl2)[q] = Content(pl2[i])
    BY <1>2, <2>1
  <2>3. CASE i = row
    BY <2>1, <2>2, <2>3
  <2>4. CASE i # row
    <3>1. q = pa[i] /\ pl2[i] = pl[i] /\ q # p
      BY <2>1, <2>4 DEF OneRow
    <3> QED
      BY <1>1, <2>1, <2>2, <3>1
  <2> QED
    BY <2>3, <2>4
<1>5. TabOf(pa2, pl2) = [q \in Paths(pa2) |-> TabOf(pa2, pl2)[q]]
  BY DEF TabOf
<1> QED
  BY <1>1, <1>3, <1>4, <1>5 DEF Stored

\* Emptying a row takes its path out.
LEMMA TabErase ==
    ASSUME NEW pa, NEW pl, NEW pa2, NEW pl2, OneRow(pa), OneRow(pa2),
           NEW row \in Slot, pa[row] # None,
           \A i \in Slot : pa2[i] = IF i = row THEN None ELSE pa[i],
           \A i \in Slot : i # row => pl2[i] = pl[i]
    PROVE  TabOf(pa2, pl2) = Dropped(TabOf(pa, pl), pa[row])
<1>1. /\ DOMAIN TabOf(pa, pl) = Paths(pa)
      /\ \A i \in Slot : pa[i] # None => TabOf(pa, pl)[pa[i]] = Content(pl[i])
  BY TabIs
<1>2. /\ DOMAIN TabOf(pa2, pl2) = Paths(pa2)
      /\ \A i \in Slot : pa2[i] # None => TabOf(pa2, pl2)[pa2[i]] = Content(pl2[i])
  BY TabIs
<1>3. Paths(pa2) = Paths(pa) \ {pa[row]}
  BY DEF OneRow, Paths
<1>4. ASSUME NEW q \in Paths(pa2)
      PROVE  TabOf(pa2, pl2)[q] = TabOf(pa, pl)[q]
  <2>1. PICK i \in Slot : q = pa2[i] /\ q # None
    BY <1>4 DEF Paths
  <2>2. i # row /\ q = pa[i] /\ pl2[i] = pl[i]
    BY <2>1
  <2> QED
    BY <1>1, <1>2, <2>1, <2>2
<1>5. TabOf(pa2, pl2) = [q \in Paths(pa2) |-> TabOf(pa2, pl2)[q]]
  BY DEF TabOf
<1> QED
  BY <1>1, <1>3, <1>4, <1>5 DEF Dropped

\* What ResourceStore answers and does, for a table T.
StatusIn(T, r) ==
    CASE r.method = "GET" -> IF r.path \in DOMAIN T THEN 200 ELSE 404
      [] r.method \in {"PUT", "POST"} /\ ~r.sized -> 400
      [] r.method = "POST" /\ r.sized -> 501
      [] r.method = "OTHER" -> 501
      [] r.method = "PUT" /\ r.sized /\ r.path \notin DynamicPath -> 403
      [] r.method = "PUT" /\ r.sized /\ r.path \in DynamicPath ->
            IF r.path \in DOMAIN T THEN 200 ELSE 201
      [] r.method = "DELETE" /\ r.path \notin DynamicPath -> 403
      [] r.method = "DELETE" /\ r.path \in DynamicPath ->
            IF r.path \in DOMAIN T THEN 200 ELSE 404

ContentIn(T, r) ==
    IF r.method = "GET" /\ StatusIn(T, r) \in {200, 201} THEN T[r.path] ELSE <<>>

AfterIn(T, r) ==
    IF r.method = "PUT" /\ StatusIn(T, r) \in {200, 201}
    THEN [p \in DOMAIN T \cup {r.path} |-> IF p = r.path THEN r.body ELSE T[p]]
    ELSE IF r.method = "DELETE" /\ StatusIn(T, r) \in {200, 201}
    THEN [p \in DOMAIN T \ {r.path} |-> T[p]]
    ELSE T

Tab == TabOf(path, payload)

\* An answer like that of ResourceStore, with its effect, is a step of it.
LEMMA Serves ==
    ASSUME NEW c \in Client, asked[c] # None,
           got' = [got EXCEPT ![c] = [status |-> StatusIn(Tab, asked[c]),
                                      content |-> ContentIn(Tab, asked[c])]],
           asked' = [asked EXCEPT ![c] = None],
           Tab' = AfterIn(Tab, asked[c])
    PROVE  Store!Next
<1>1. Store!Status(asked[c]) = StatusIn(Tab, asked[c])
  BY DEF Store!Status, StatusIn, Tab, TabOf, Paths
<1>2. Store!After(asked[c]) = AfterIn(Tab, asked[c])
  BY <1>1 DEF Store!After, Store!Succeeds, AfterIn, Tab, TabOf, Paths
<1>3. Store!Serve(c)
  BY <1>1, <1>2 DEF Store!Serve, Store!Reply, Store!Succeeds, ContentIn, Tab, TabOf, Paths
<1> QED
  BY <1>3 DEF Store!Next

\* Nothing is answered and nothing stored.
LEMMA Stutters ==
    ASSUME table' = table, asked' = asked, got' = got
    PROVE  UNCHANGED Store!storeVars
BY DEF Store!storeVars, table

\* The cases of an answer.
LEMMA StatusCases ==
    ASSUME NEW T, NEW r
    PROVE  /\ r.method = "GET" => StatusIn(T, r) = IF r.path \in DOMAIN T THEN 200 ELSE 404
           /\ r.method \in {"PUT", "POST"} /\ ~r.sized => StatusIn(T, r) = 400
           /\ r.method = "POST" /\ r.sized => StatusIn(T, r) = 501
           /\ r.method = "OTHER" => StatusIn(T, r) = 501
           /\ r.method = "DELETE" /\ r.path \notin DynamicPath => StatusIn(T, r) = 403
           /\ r.method = "PUT" /\ r.sized /\ r.path \notin DynamicPath => StatusIn(T, r) = 403
           /\ r.method = "PUT" /\ r.sized /\ r.path \in DynamicPath =>
                StatusIn(T, r) = IF r.path \in DOMAIN T THEN 200 ELSE 201
           /\ r.method = "DELETE" /\ r.path \in DynamicPath =>
                StatusIn(T, r) = IF r.path \in DOMAIN T THEN 200 ELSE 404
<1>1. r.method = "GET" => StatusIn(T, r) = IF r.path \in DOMAIN T THEN 200 ELSE 404
  BY DEF StatusIn
<1>2. r.method \in {"PUT", "POST"} /\ ~r.sized => StatusIn(T, r) = 400
  BY DEF StatusIn
<1>3. r.method = "POST" /\ r.sized => StatusIn(T, r) = 501
  BY DEF StatusIn
<1>4. r.method = "OTHER" => StatusIn(T, r) = 501
  BY DEF StatusIn
<1>5. r.method = "DELETE" /\ r.path \notin DynamicPath => StatusIn(T, r) = 403
  BY DEF StatusIn
<1>6. r.method = "PUT" /\ r.sized /\ r.path \notin DynamicPath => StatusIn(T, r) = 403
  BY DEF StatusIn
<1>7. r.method = "PUT" /\ r.sized /\ r.path \in DynamicPath =>
        StatusIn(T, r) = IF r.path \in DOMAIN T THEN 200 ELSE 201
  BY DEF StatusIn
<1>8. r.method = "DELETE" /\ r.path \in DynamicPath =>
        StatusIn(T, r) = IF r.path \in DOMAIN T THEN 200 ELSE 404
  BY DEF StatusIn
<1> QED
  BY <1>1, <1>2, <1>3, <1>4, <1>5, <1>6, <1>7, <1>8

\* A path is stored when it has a row.
LEMMA StoredIff ==
    ASSUME WebInv, NEW p, p # None
    PROVE  /\ p \in DOMAIN Tab <=> Rows(p) # {}
           /\ Rows(p) # {} => Tab[p] = Content(payload[Row(p)])
<1>1. OneRow(path)
  BY DEF WebInv, OneRowEach, OneRow
<1>2. /\ DOMAIN Tab = Paths(path)
      /\ \A i \in Slot : path[i] # None => Tab[path[i]] = Content(payload[i])
  BY <1>1, TabIs DEF Tab
<1>3. p \in Paths(path) <=> Rows(p) # {}
  BY DEF Paths, Rows
<1>4. ASSUME Rows(p) # {} PROVE Tab[p] = Content(payload[Row(p)])
  BY <1>2, <1>4, RowIn
<1> QED
  BY <1>2, <1>3, <1>4

\* Behind what a client can store in a row there is nothing.
StoredInv ==
    polite => \A i \in Slot, r \in Clean :
                 Puts(r) /\ r.path = path[i] =>
                    \A j \in 1 .. Width : j > Len(r.body) => payload[i][j] = Nul

StoreState == PoliteState /\ StoredInv

\* What strncpy leaves of a row that has nothing behind the new content.
LEMMA CopiedIs ==
    ASSUME NEW s \in Seq(Char), NEW row,
           \A j \in 1 .. Width : j > Len(s) => row[j] = Nul
    PROVE  Copied(row, s) = RowOf(s)
<1>1. Width \in Nat /\ Nul \notin Char /\ Len(s) \in Nat
  BY WebAssumption
<1>2. \A i \in 1 .. Len(s) : s[i] \in Char /\ s[i] # Nul
  BY <1>1
<1>3. \A i \in 1 .. Width :
         (IF i > Len(s) THEN row[i] ELSE IF \E j \in 1 .. i : s[j] = Nul THEN Nul ELSE s[i])
       = (IF i <= Len(s) THEN s[i] ELSE Nul)
  BY <1>1, <1>2
<1> QED
  BY <1>3 DEF Copied, RowOf

\* The body that is stored is the body the client has sent.
LEMMA PoliteBody ==
    ASSUME GoodManners, PoliteState, RecvBody
    PROVE  LET r == asked[conn] IN
           /\ r \in Clean /\ conn \in Client /\ phase[conn] = "busy" /\ HasBody(r)
           /\ Version(buffer) = r.version
           /\ \/ r.method = "PUT" /\ r.sized /\ Put(r.path, r.body)
              \/ r.method = "DELETE" /\ r.path \in DynamicPath /\ Delete(r.path)
<1> DEFINE r == asked[conn]
<1>1. /\ phase[conn] = "busy" /\ r \in Clean /\ conn \in Client
      /\ buffer = Header(r) /\ HasBody(r)
      /\ ContentLength(buffer) = Len(r.body)
      /\ wire[conn] = BodyText(r) /\ r.sized
  BY BodyIsThere
<1>2. PICK k \in Nat :
         /\ k = ContentLength(buffer)
         /\ \/ /\ Method(buffer) = "PUT"
               /\ \E body \in Seq(Char \cup {Nul}) :
                    /\ Len(body) = ContentLength(buffer)
                    /\ \A i \in 1 .. k : body[i] = wire[conn][i].char
                    /\ Put(Url(buffer), body)
            \/ /\ Method(buffer) = "DELETE" /\ Url(buffer) \in DynamicPath
               /\ Delete(Url(buffer))
  BY BodyStep DEF PoliteState
<1> HIDE DEF r
<1>3. r \in Asked
  BY <1>1 DEF Asked
<1>4. Method(buffer) = r.method /\ Url(buffer) = r.path /\ Version(buffer) = r.version
  BY <1>1, <1>3, HeaderParsed
<1>5. r.body \in Seq(Char) /\ Len(r.body) \in Nat
  BY <1>3, RequestTyped
<1>6. ASSUME NEW body \in Seq(Char \cup {Nul}), Len(body) = Len(r.body),
             \A i \in 1 .. k : body[i] = wire[conn][i].char
      PROVE  body = r.body
  <2>1. \A i \in 1 .. Len(body) : body[i] = r.body[i]
    <3> TAKE i \in 1 .. Len(body)
    <3>1. i \in 1 .. k /\ i \in 1 .. Len(r.body)
      BY <1>1, <1>2, <1>6
    <3>2. wire[conn][i] = Text(r.body[i])
      BY <1>1, <3>1 DEF BodyText
    <3> QED
      BY <1>6, <3>1, <3>2 DEF Text
  <2>2. r.body \in Seq(Char \cup {Nul})
    BY <1>5, SeqFacts!SeqMonotonic
  <2> QED
    BY <1>6, <2>1, <2>2, SeqFacts!SeqEqual
<1>7. CASE /\ Method(buffer) = "PUT"
           /\ \E body \in Seq(Char \cup {Nul}) :
                 /\ Len(body) = ContentLength(buffer)
                 /\ \A i \in 1 .. k : body[i] = wire[conn][i].char
                 /\ Put(Url(buffer), body)
  <2>1. PICK body \in Seq(Char \cup {Nul}) :
          /\ Len(body) = Len(r.body)
          /\ \A i \in 1 .. k : body[i] = wire[conn][i].char
          /\ Put(Url(buffer), body)
    BY <1>1, <1>7
  <2>2. Put(r.path, r.body)
    BY <1>4, <1>6, <2>1
  <2> QED
    BY <1>1, <1>4, <1>7, <2>2 DEF r
<1>8. CASE /\ Method(buffer) = "DELETE" /\ Url(buffer) \in DynamicPath
           /\ Delete(Url(buffer))
  BY <1>1, <1>4, <1>8 DEF r
<1> QED
  BY <1>2, <1>7, <1>8

\* So a row that is written holds exactly what the client has sent.
LEMMA PoliteWrite ==
    ASSUME StoreState, KeepLengths, NEW r \in Clean, Puts(r), NEW row \in Slot,
           Writes(r.path, row, r.body)
    PROVE  /\ r.body \in Seq(Char) /\ Len(r.body) <= Width
           /\ payload' = [payload EXCEPT ![row] = RowOf(r.body)]
<1>1. r.body \in Seq(Char) /\ Len(r.body) <= Width
  BY RequestTyped DEF KeepLengths, Asked
<1>2. \A j \in 1 .. Width : j > Len(r.body) => payload[row][j] = Nul
  <2>1. CASE path[row] = r.path
    BY <2>1 DEF StoreState, PoliteState, StoredInv
  <2>2. CASE path[row] = None
    BY <2>2 DEF StoreState, PoliteState, WebInv, EmptyRowsAreEmpty, Empty
  <2> QED
    BY <2>1, <2>2 DEF Writes
<1>3. Copied(payload[row], r.body) = RowOf(r.body)
  BY <1>1, <1>2, CopiedIs
<1> QED
  BY <1>1, <1>3 DEF Writes

\* Behind the contents of a row there stays nothing.
LEMMA StoredNext ==
    ASSUME GoodManners, KeepLengths, WebInv, PoliteInv, StoredInv, [Next]_vars
    PROVE  StoredInv'
<1> SUFFICES ASSUME polite', NEW i \in Slot, NEW q \in Clean, Puts(q), q.path = path'[i],
                    NEW j \in 1 .. Width, j > Len(q.body)
             PROVE  payload'[i][j] = Nul
  BY DEF StoredInv
<1>1. polite' = polite
  BY DEF Next, Server, Ask, HangUp, Accept, Recv, RecvEnd, RecvBody, BodyEnd, vars
<1>2. PoliteState /\ StoreState
  BY <1>1 DEF PoliteState, StoreState
<1>3. TableTyped /\ WebInv
  BY DEF WebInv
<1>4. q.path = path[i] => payload[i][j] = Nul
  BY <1>1 DEF StoredInv
<1>5. None \notin DynamicPath /\ q.path # None
  BY WebAssumption DEF Puts
<1>6. CASE table' = table
  BY <1>4, <1>6 DEF table
<1>7. ASSUME NEW row \in Slot, Erases(row) PROVE payload'[i][j] = Nul
  <2>1. /\ path'[i] = IF i = row THEN None ELSE path[i]
        /\ payload'[i] = IF i = row THEN Empty ELSE payload[i]
    BY <1>3, <1>7 DEF Erases, TableTyped
  <2> QED
    BY <1>4, <1>5, <2>1
<1>8. CASE RecvBody
  <2> DEFINE r == asked[conn]
  <2>1. /\ r \in Clean /\ HasBody(r)
        /\ \/ r.method = "PUT" /\ r.sized /\ Put(r.path, r.body)
           \/ r.method = "DELETE" /\ r.path \in DynamicPath /\ Delete(r.path)
    BY <1>2, <1>8, PoliteBody
  <2> HIDE DEF r
  <2>2. CASE r.method = "DELETE" /\ r.path \in DynamicPath /\ Delete(r.path)
    BY <1>6, <1>7, <2>2, DeleteStep
  <2>3. CASE r.method = "PUT" /\ r.sized /\ Put(r.path, r.body)
    <3>1. r.body \in Seq(Char \cup {Nul})
      <4>1. r.body \in Seq(Char)
        BY <2>1, RequestTyped DEF Asked
      <4> QED
        BY <4>1, SeqFacts!SeqMonotonic
    <3>2. \/ table' = table
          \/ r.path \in DynamicPath /\ \E row \in Slot : Writes(r.path, row, r.body)
      BY <2>3, <3>1, PutStep
    <3>3. ASSUME r.path \in DynamicPath, NEW row \in Slot, Writes(r.path, row, r.body)
          PROVE  payload'[i][j] = Nul
      <4>1. Puts(r)
        BY <2>3, <3>3 DEF Puts
      <4>2. /\ r.body \in Seq(Char) /\ payload' = [payload EXCEPT ![row] = RowOf(r.body)]
        BY <1>2, <2>1, <3>3, <4>1, PoliteWrite
      <4>3. CASE i = row
        <5>1. path'[i] = r.path /\ payload'[i] = RowOf(r.body)
          BY <1>3, <3>3, <4>2, <4>3 DEF Writes, TableTyped
        <5>2. Len(r.body) = Len(q.body)
          BY <2>1, <4>1, <5>1 DEF KeepLengths
        <5>3. Len(r.body) \in Nat /\ Width \in Nat
          BY <4>2, WebAssumption
        <5> QED
          BY <5>1, <5>2, <5>3 DEF RowOf
      <4>4. CASE i # row
        BY <1>3, <1>4, <3>3, <4>2, <4>4 DEF Writes, TableTyped
      <4> QED
        BY <4>3, <4>4
    <3> QED
      BY <1>6, <3>2, <3>3
  <2> QED
    BY <2>1, <2>2, <2>3
<1>9. CASE Recv
  BY <1>3, <1>6, <1>9, RecvStep
<1>10. CASE Accept \/ RecvEnd \/ BodyEnd
  BY <1>6, <1>10 DEF Accept, RecvEnd, BodyEnd, Break
<1>11. ASSUME NEW c \in Client, HangUp(c) \/ \E r \in Asked : Ask(c, r) PROVE payload'[i][j] = Nul
  BY <1>6, <1>11 DEF HangUp, Ask
<1>12. CASE UNCHANGED vars
  BY <1>6, <1>12 DEF vars
<1> QED
  BY <1>8, <1>9, <1>10, <1>11, <1>12 DEF Next, Server, Asked

\* The answer a client gets, when it knows the version.
LEMMA PoliteAnswer ==
    ASSUME NEW status, NEW content, NEW b, Version(b), phase[conn] = "busy",
           Respond(Checked(status, b), content)
    PROVE  /\ got' = [got EXCEPT ![conn] = [status |-> status, content |-> content]]
           /\ asked' = [asked EXCEPT ![conn] = None]
BY DEF Respond, Checked

\* What is answered at once takes nothing from the table and adds nothing.
LEMMA RecvServes ==
    ASSUME GoodManners, KnowVersion, StoreState, Recv
    PROVE  Store!Next \/ UNCHANGED Store!storeVars
<1> DEFINE b == Append(buffer, Head(wire[conn]))
           r == asked[conn]
<1>1. /\ table' = table
      /\ \/ client' = client /\ got' = got
         \/ /\ Head(wire[conn]) = Blank /\ ~TakesBody(b)
            /\ AnswerAtOnce(b)
  BY RecvStep DEF StoreState, PoliteState
<1>2. /\ phase[conn] = "busy" /\ r \in Clean /\ conn \in Client
      /\ Head(wire[conn]) = Blank => b = Header(r)
  BY RecvBlank DEF StoreState
<1> HIDE DEF b, r
<1>3. CASE client' = client /\ got' = got
  BY <1>1, <1>3, Stutters DEF client
<1>4. CASE Head(wire[conn]) = Blank /\ ~TakesBody(b) /\ AnswerAtOnce(b)
  <2>1. r \in Asked /\ r # None
    BY <1>2, WebAssumption DEF Asked
  <2>2. /\ Method(b) = r.method /\ Url(b) = r.path /\ Sized(b) = r.sized /\ Version(b) = r.version
    BY <1>2, <1>4, <2>1, HeaderParsed
  <2>3. r.version
    BY <1>2 DEF KnowVersion
  <2>4. ~HasBody(r)
    BY <1>4, <2>2 DEF TakesBody, HasBody
  <2>5. /\ r.sized \in BOOLEAN /\ r.path # None
        /\ r.method \in {"GET", "PUT", "POST", "DELETE", "OTHER"}
    <3>1. /\ r.sized \in BOOLEAN /\ r.path \in StaticPath \cup DynamicPath
          /\ r.method \in {"GET", "PUT", "POST", "DELETE", "OTHER"}
      BY <2>1, RequestTyped
    <3>2. None \notin StaticPath \cup DynamicPath
      BY WebAssumption
    <3> QED
      BY <3>1, <3>2
  <2>6. /\ r.path \in DOMAIN Tab <=> Rows(r.path) # {}
        /\ Rows(r.path) # {} => Tab[r.path] = Content(payload[Row(r.path)])
    BY <2>5, StoredIff DEF StoreState, PoliteState
  <2> DEFINE status == CASE Method(b) = "GET" -> IF Rows(r.path) # {} THEN 200 ELSE 404
                         [] Method(b) \in {"PUT", "POST"} /\ ~Sized(b) -> 400
                         [] Method(b) = "DELETE" -> 403
                         [] OTHER -> 501
             found == Method(b) = "GET" /\ Rows(r.path) # {} /\ Version(b)
             content == IF found THEN Content(payload[Row(r.path)]) ELSE <<>>
  <2>7. Respond(Checked(status, b), content)
    BY <1>4, <2>2 DEF AnswerAtOnce
  <2>8. status = StatusIn(Tab, r)
    <3>1. CASE r.method = "GET"
      BY <2>2, <2>6, <3>1, StatusCases
    <3>2. CASE r.method \in {"PUT", "POST"} /\ ~r.sized
      BY <2>2, <3>2, StatusCases
    <3>3. CASE r.method = "POST" /\ r.sized
      BY <2>2, <3>3, StatusCases
    <3>4. CASE r.method = "OTHER"
      BY <2>2, <3>4, StatusCases
    <3>5. CASE r.method = "DELETE"
      BY <2>2, <2>4, <3>5, StatusCases DEF HasBody
    <3> QED
      BY <2>4, <2>5, <3>1, <3>2, <3>3, <3>4, <3>5 DEF HasBody
  <2>9. content = ContentIn(Tab, r)
    <3>1. CASE r.method = "GET"
      <4>1. StatusIn(Tab, r) = IF r.path \in DOMAIN Tab THEN 200 ELSE 404
        BY <3>1, StatusCases
      <4> QED
        BY <2>2, <2>3, <2>6, <3>1, <4>1 DEF ContentIn
    <3>2. CASE r.method # "GET"
      BY <2>2, <3>2 DEF ContentIn
    <3> QED
      BY <3>1, <3>2
  <2>10. AfterIn(Tab, r) = Tab
    <3>1. CASE r.method = "PUT"
      <4>1. StatusIn(Tab, r) = 400
        BY <2>4, <2>5, <3>1, StatusCases DEF HasBody
      <4> QED
        BY <3>1, <4>1 DEF AfterIn
    <3>2. CASE r.method = "DELETE"
      <4>1. StatusIn(Tab, r) = 403
        BY <2>4, <3>2, StatusCases DEF HasBody
      <4> QED
        BY <3>2, <4>1 DEF AfterIn
    <3>3. CASE r.method \notin {"PUT", "DELETE"}
      BY <3>3 DEF AfterIn
    <3> QED
      BY <3>1, <3>2, <3>3
  <2> HIDE DEF status, content
  <2>11. /\ got' = [got EXCEPT ![conn] = [status |-> status, content |-> content]]
         /\ asked' = [asked EXCEPT ![conn] = None]
    BY <1>2, <2>2, <2>3, <2>7, PoliteAnswer
  <2>12. Tab' = Tab
    BY <1>1 DEF table, Tab, TabOf, Paths
  <2> QED
    BY <1>2, <2>1, <2>8, <2>9, <2>10, <2>11, <2>12, Serves DEF r
<1> QED
  BY <1>1, <1>3, <1>4

\* A PUT and a DELETE change the row of their path and nothing else.
LEMMA BodyServes ==
    ASSUME GoodManners, KnowVersion, KeepLengths, StoreState, RecvBody, WebInv'
    PROVE  Store!Next \/ UNCHANGED Store!storeVars
<1> DEFINE r == asked[conn]
<1>1. /\ r \in Clean /\ conn \in Client /\ phase[conn] = "busy" /\ HasBody(r)
      /\ Version(buffer) = r.version
      /\ \/ r.method = "PUT" /\ r.sized /\ Put(r.path, r.body)
         \/ r.method = "DELETE" /\ r.path \in DynamicPath /\ Delete(r.path)
  BY PoliteBody DEF StoreState
<1> HIDE DEF r
<1>2. r \in Asked /\ r # None /\ Version(buffer)
  BY <1>1, WebAssumption DEF Asked, KnowVersion
<1>3. r.path # None /\ r.body \in Seq(Char)
  <2>1. r.path \in StaticPath \cup DynamicPath /\ r.body \in Seq(Char)
    BY <1>2, RequestTyped
  <2> QED
    BY <2>1, WebAssumption
<1>4. /\ r.path \in DOMAIN Tab <=> Rows(r.path) # {}
  BY <1>3, StoredIff DEF StoreState, PoliteState
<1>5. /\ TableTyped /\ OneRow(path) /\ OneRow(path')
  BY DEF StoreState, PoliteState, WebInv, OneRowEach, OneRow
<1>6. ASSUME NEW status, Respond(Checked(status, buffer), <<>>),
             status = StatusIn(Tab, r), Tab' = AfterIn(Tab, r), r.method # "GET"
      PROVE  Store!Next
  <2>1. /\ got' = [got EXCEPT ![conn] = [status |-> status, content |-> <<>>]]
        /\ asked' = [asked EXCEPT ![conn] = None]
    BY <1>1, <1>2, <1>6, PoliteAnswer
  <2>2. ContentIn(Tab, r) = <<>>
    BY <1>6 DEF ContentIn
  <2> QED
    BY <1>1, <1>2, <1>6, <2>1, <2>2, Serves DEF r
<1>7. table' = table => Tab' = Tab
  BY DEF table, Tab, TabOf, Paths
<1>8. CASE r.method = "PUT" /\ r.sized /\ Put(r.path, r.body)
  <2>1. CASE r.path \notin DynamicPath /\ Respond(Checked(403, buffer), <<>>) /\ UNCHANGED table
    <3>1. StatusIn(Tab, r) = 403
      BY <1>8, <2>1, StatusCases
    <3>2. AfterIn(Tab, r) = Tab
      BY <1>8, <3>1 DEF AfterIn
    <3> QED
      BY <1>6, <1>7, <1>8, <2>1, <3>1, <3>2
  <2>2. CASE /\ r.path \in DynamicPath /\ Rows(r.path) \cup Rows(None) # {}
             /\ LET row == IF Rows(r.path) # {} THEN Row(r.path) ELSE Row(None)
                IN /\ path' = [path EXCEPT ![row] = r.path]
                   /\ payload' = [payload EXCEPT ![row] = Copied(@, r.body)]
             /\ Respond(Checked(IF Rows(r.path) # {} THEN 200 ELSE 201, buffer), <<>>)
    <3> DEFINE row == IF Rows(r.path) # {} THEN Row(r.path) ELSE Row(None)
    <3>1. /\ row \in Slot
          /\ path[row] = r.path \/ (path[row] = None /\ Rows(r.path) = {})
      BY <2>2, RowIn
    <3>2. Writes(r.path, row, r.body)
      BY <2>2, <3>1 DEF Writes
    <3> HIDE DEF row
    <3>3. Puts(r)
      BY <1>8, <2>2 DEF Puts
    <3>4. /\ Len(r.body) <= Width /\ payload' = [payload EXCEPT ![row] = RowOf(r.body)]
      BY <1>1, <3>1, <3>2, <3>3, PoliteWrite
    <3>5. Content(RowOf(r.body)) = r.body
      BY <1>3, <3>4, ContentOfRow
    <3>6. \A i \in Slot : /\ path'[i] = IF i = row THEN r.path ELSE path[i]
                          /\ payload'[i] = IF i = row THEN RowOf(r.body) ELSE payload[i]
      BY <1>5, <3>2, <3>4 DEF Writes, TableTyped
    <3>7. Tab' = Stored(Tab, r.path, Content(RowOf(r.body)))
      <4>1. TabOf(path', payload') =
              Stored(TabOf(path, payload), r.path, Content(RowOf(r.body)))
        <5>1. \A i \in Slot : path'[i] = IF i = row THEN r.path ELSE path[i]
          BY <3>6
        <5>2. \A i \in Slot : payload'[i] = IF i = row THEN RowOf(r.body) ELSE payload[i]
          BY <3>6
        <5>3. row \in Slot /\ r.path # None /\ (path[row] = r.path \/ path[row] = None)
          BY <1>3, <3>1
        <5> HIDE DEF r
        <5> QED
          BY <1>5, <5>1, <5>2, <5>3, TabWrite
      <4> QED
        BY <4>1 DEF Tab
    <3>8. StatusIn(Tab, r) = IF Rows(r.path) # {} THEN 200 ELSE 201
      BY <1>4, <1>8, <2>2, StatusCases
    <3>9. AfterIn(Tab, r) = Stored(Tab, r.path, r.body)
      BY <1>8, <3>8 DEF AfterIn, Stored
    <3>10. Tab' = AfterIn(Tab, r)
      BY <3>5, <3>7, <3>9
    <3> QED
      BY <1>6, <1>8, <2>2, <3>8, <3>10
  <2>3. CASE /\ r.path \in DynamicPath /\ Rows(r.path) \cup Rows(None) = {}
             /\ pc' = "undefined" /\ UNCHANGED <<table, buffer, conn, client, got>>
    BY <2>3, Stutters DEF client
  <2> QED
    BY <1>8, <2>1, <2>2, <2>3 DEF Put
<1>9. CASE r.method = "DELETE" /\ r.path \in DynamicPath /\ Delete(r.path)
  <2>1. StatusIn(Tab, r) = IF Rows(r.path) # {} THEN 200 ELSE 404
    BY <1>4, <1>9, StatusCases
  <2>2. Respond(Checked(IF Rows(r.path) # {} THEN 200 ELSE 404, buffer), <<>>)
    BY <1>9 DEF Delete
  <2>3. CASE Rows(r.path) # {}
    <3> DEFINE row == Row(r.path)
    <3>1. row \in Slot /\ path[row] = r.path
      BY <2>3, RowIn
    <3>2. \A i \in Slot : /\ path'[i] = IF i = row THEN None ELSE path[i]
                          /\ i # row => payload'[i] = payload[i]
      BY <1>5, <1>9, <2>3 DEF Delete, TableTyped
    <3> HIDE DEF row
    <3>3. TabOf(path', payload') = Dropped(TabOf(path, payload), path[row])
      <4>1. \A i \in Slot : path'[i] = IF i = row THEN None ELSE path[i]
        BY <3>2
      <4>2. \A i \in Slot : i # row => payload'[i] = payload[i]
        BY <3>2
      <4>3. row \in Slot /\ path[row] # None
        BY <1>3, <3>1
      <4> QED
        BY <1>5, <4>1, <4>2, <4>3, TabErase
    <3>4. Tab' = AfterIn(Tab, r)
      BY <1>9, <2>1, <2>3, <3>1, <3>3 DEF AfterIn, Dropped, Tab
    <3> QED
      BY <1>6, <1>9, <2>1, <2>2, <3>4
  <2>4. CASE Rows(r.path) = {}
    <3>1. table' = table
      BY <1>9, <2>4 DEF Delete, table
    <3>2. AfterIn(Tab, r) = Tab
      BY <1>9, <2>1, <2>4 DEF AfterIn
    <3> QED
      BY <1>6, <1>7, <1>9, <2>1, <2>2, <3>1, <3>2
  <2> QED
    BY <2>3, <2>4
<1> QED
  BY <1>1, <1>8, <1>9

\* A polite client begins a request when it has the answer to the last one.
LEMMA AskServes ==
    ASSUME StoreState, NEW c \in Client, NEW r \in Asked, Ask(c, r)
    PROVE  Store!Next
<1>1. r \in Clean /\ asked[c] = None
  BY DEF Ask, StoreState, PoliteState, PoliteInv, PoliteClients
<1>2. Store!Ask(c, r)
  BY <1>1 DEF Ask, Store!Ask, table
<1> QED
  BY <1>1, <1>2 DEF Store!Next

\* main fills the table with the static resources.
LEMMA StoreInit == ASSUME Init PROVE Store!Init
<1>1. /\ StaticSlot \in [StaticPath -> Slot]
      /\ \A p, q \in StaticPath : StaticSlot[p] = StaticSlot[q] => p = q
      /\ None \notin StaticPath
  BY WebAssumption
<1>2. WebInv
  BY WebInit
<1>3. OneRow(path) /\ StaticKept
  BY <1>2 DEF WebInv, OneRowEach, OneRow
<1>4. Paths(path) = StaticPath
  <2>1. ASSUME NEW i \in Slot PROVE path[i] = None \/ path[i] \in StaticPath
    BY DEF Init
  <2>2. ASSUME NEW p \in StaticPath PROVE \E i \in Slot : path[i] = p
    BY <1>1, <1>3 DEF StaticKept
  <2> QED
    BY <1>1, <2>1, <2>2 DEF Paths
<1>5. ASSUME NEW p \in StaticPath PROVE TabOf(path, payload)[p] = StaticContent[p]
  <2>1. StaticSlot[p] \in Slot /\ path[StaticSlot[p]] = p /\ p # None
    BY <1>1, <1>3 DEF StaticKept
  <2>2. TabOf(path, payload)[p] = Content(payload[StaticSlot[p]])
    BY <1>3, <2>1, TabIs
  <2> QED
    BY <1>3, <2>2 DEF StaticKept
<1>6. TabOf(path, payload) = [p \in StaticPath |-> StaticContent[p]]
  <2>1. TabOf(path, payload) = [p \in Paths(path) |-> TabOf(path, payload)[p]]
    BY DEF TabOf
  <2> QED
    BY <1>4, <1>5, <2>1
<1>7. asked = [c \in Client |-> None] /\ got = [c \in Client |-> None]
  BY DEF Init
<1> QED
  BY <1>6, <1>7 DEF Store!Init, TabOf, Paths

\* Every step of the server is one of ResourceStore or none.
LEMMA StoreNext ==
    ASSUME GoodManners, KnowVersion, KeepLengths,
           WebInv, PoliteInv, StoredInv, [Next]_vars, WebInv'
    PROVE  [polite => Store!Next]_(Store!storeVars)
<1> SUFFICES ASSUME polite PROVE Store!Next \/ UNCHANGED Store!storeVars
  OBVIOUS
<1>1. StoreState
  BY DEF StoreState, PoliteState
<1>2. CASE UNCHANGED vars
  BY <1>2, Stutters DEF vars, client
<1>3. ASSUME NEW c \in Client, HangUp(c) PROVE UNCHANGED Store!storeVars
  BY <1>3, Stutters DEF HangUp
<1>4. ASSUME NEW c \in Client, NEW r \in Asked, Ask(c, r) PROVE Store!Next
  BY <1>1, <1>4, AskServes
<1>5. CASE Accept \/ RecvEnd \/ BodyEnd
  BY <1>5, Stutters DEF Accept, RecvEnd, BodyEnd, Break, client
<1>6. CASE Recv
  BY <1>1, <1>6, RecvServes
<1>7. CASE RecvBody
  BY <1>1, <1>7, BodyServes
<1> QED
  BY <1>2, <1>3, <1>4, <1>5, <1>6, <1>7 DEF Next, Server, Asked

\* With clients that finish what they begin the server is one table: every
\* request takes effect once, in the order of the answers, however many
\* clients there are and whatever rows the resources move to.
THEOREM ServerIsOneTable ==
    ASSUME GoodManners, KnowVersion, KeepLengths
    PROVE  Spec => ImplementsStore
<1> DEFINE Inv == WebInv /\ PoliteInv /\ StoredInv
<1>1. Init => Inv
  <2>1. Init => StoredInv
    <3> SUFFICES ASSUME Init, NEW i \in Slot, NEW r \in Clean, Puts(r), r.path = path[i]
                 PROVE  FALSE
      BY DEF StoredInv
    <3>1. path[i] = None \/ path[i] \in StaticPath
      BY DEF Init
    <3> QED
      BY <3>1, WebAssumption DEF Puts
  <2> QED
    BY <2>1, WebInit, PoliteInit
<1>2. Inv /\ [Next]_vars => Inv'
  BY WebNext, PoliteNext, StoredNext
<1>3. Inv /\ Inv' /\ [Next]_vars => [polite => Store!Next]_(Store!storeVars)
  BY StoreNext
<1>4. Init => (polite => Store!Init)
  BY StoreInit
<1> HIDE DEF Inv
<1> QED
  BY <1>1, <1>2, <1>3, <1>4, PTL DEF Spec, ImplementsStore

=============================================================================
