-------------------------- MODULE SearchPagesProofs --------------------------
(***************************************************************************)
(* Proofs about SearchPages, for every number of documents, conditions and *)
(* fetches and every page size.                                            *)
(*                                                                         *)
(* A list is the ordered enumeration of a finite set, which exists because *)
(* each member has a place: one more than the number of those before it    *)
(* (InOrderExists).  The rest is the argument that what the server and the *)
(* page compare, a generation and a sequence number, stands for what they  *)
(* do not see, the documents changed meanwhile and the form.               *)
(***************************************************************************)
EXTENDS SearchPages, FiniteSetTheorems, SequenceTheorems, TLAPS

-----------------------------------------------------------------------------
(* Lists.                                                                    *)

\* A strict total order enumerates a finite set, each member once.
LEMMA InOrderExists ==
    ASSUME NEW S, IsFiniteSet(S), NEW before,
           \A x \in S : <<x, x>> \notin before,
           \A x, y \in S : x # y => <<x, y>> \in before \/ <<y, x>> \in before,
           \A x, y, z \in S : <<x, y>> \in before /\ <<y, z>> \in before => <<x, z>> \in before
    PROVE  /\ Cardinality(S) \in Nat
           /\ InOrder(S, before) \in [1..Cardinality(S) -> S]
           /\ \A i, j \in 1..Cardinality(S) :
                i < j => <<InOrder(S, before)[i], InOrder(S, before)[j]>> \in before
<1> DEFINE n == Cardinality(S)
           Earlier(x) == {y \in S : <<y, x>> \in before}
           place == [x \in S |-> Cardinality(Earlier(x)) + 1]
<1>1. n \in Nat
    BY FS_CardinalityType
<1>2. ASSUME NEW x \in S
      PROVE  IsFiniteSet(Earlier(x)) /\ Cardinality(Earlier(x)) \in Nat /\ place[x] \in 1..n
  <2>1. Earlier(x) \in SUBSET (S \ {x})
    OBVIOUS
  <2>2. IsFiniteSet(S \ {x}) /\ Cardinality(S \ {x}) = n - 1
    BY FS_RemoveElement
  <2> HIDE DEF Earlier
  <2>3. IsFiniteSet(Earlier(x)) /\ Cardinality(Earlier(x)) <= Cardinality(S \ {x})
    BY <2>1, <2>2, FS_Subset
  <2>4. Cardinality(Earlier(x)) \in Nat
    BY <2>3, FS_CardinalityType
  <2>5. place[x] = Cardinality(Earlier(x)) + 1
    OBVIOUS
  <2> HIDE DEF place, n
  <2>6. QED BY <1>1, <2>2, <2>3, <2>4, <2>5
<1>3. ASSUME NEW x \in S, NEW y \in S, <<x, y>> \in before
      PROVE  place[x] < place[y]
  <2>1. Earlier(x) \in SUBSET (Earlier(y) \ {x}) /\ x \in Earlier(y)
    BY <1>3
  <2>2. /\ IsFiniteSet(Earlier(y) \ {x})
        /\ Cardinality(Earlier(y) \ {x}) = Cardinality(Earlier(y)) - 1
    BY <1>2, <2>1, FS_RemoveElement
  <2>3. /\ place[x] = Cardinality(Earlier(x)) + 1
        /\ place[y] = Cardinality(Earlier(y)) + 1
    OBVIOUS
  <2> HIDE DEF Earlier, place
  <2>4. Cardinality(Earlier(x)) <= Cardinality(Earlier(y) \ {x})
    BY <2>1, <2>2, FS_Subset
  <2>5. Cardinality(Earlier(x)) \in Nat /\ Cardinality(Earlier(y)) \in Nat
    BY <1>2
  <2>6. QED BY <2>2, <2>3, <2>4, <2>5
<1>4. \A x, y \in S : place[x] = place[y] => x = y
  <2> SUFFICES ASSUME NEW x \in S, NEW y \in S, place[x] = place[y], x # y PROVE FALSE
    OBVIOUS
  <2>1. place[x] < place[y] \/ place[y] < place[x]
    BY <1>3
  <2> HIDE DEF place, Earlier
  <2>2. place[x] \in Nat /\ place[y] \in Nat
    BY <1>1, <1>2
  <2>3. QED BY <2>1, <2>2
<1>5. place \in Injection(S, 1..n)
  <2>1. place \in [S -> 1..n]
    BY <1>2
  <2> HIDE DEF place
  <2>2. QED BY <1>4, <2>1 DEF Injection, IsInjective
<1>6. place \in Surjection(S, 1..n)
  <2>1. IsFiniteSet(1..n) /\ Cardinality(1..n) = n
    BY <1>1, FS_Interval
  <2>2. QED BY <1>5, <2>1, FS_Injection
<1>7. \A k \in 1..n : \E x \in S : place[x] = k
    BY <1>6 DEF Surjection
<1> DEFINE s == [k \in 1..n |-> CHOOSE x \in S : place[x] = k]
<1>8. \A k \in 1..n : s[k] \in S /\ place[s[k]] = k
    BY <1>7
<1>9. s \in [1..n -> S]
    BY <1>8
<1>10. \A i, j \in 1..n : i # j => s[i] # s[j]
    BY <1>8
<1>11. \A i, j \in 1..n : i < j => <<s[i], s[j]>> \in before
  <2> SUFFICES ASSUME NEW i \in 1..n, NEW j \in 1..n, i < j PROVE <<s[i], s[j]>> \in before
    OBVIOUS
  <2>2. i # j /\ ~(j < i)
    BY <1>1
  <2> HIDE DEF s, place
  <2>1. s[i] \in S /\ s[j] \in S /\ s[i] # s[j] /\ place[s[i]] = i /\ place[s[j]] = j
    BY <1>8, <1>10, <2>2
  <2>3. <<s[j], s[i]>> \notin before
    BY <1>3, <2>1, <2>2
  <2>4. QED BY <2>1, <2>3
<1> HIDE DEF s
<1>12. s \in SetToSeqs(S)
    BY <1>9, <1>10 DEF SetToSeqs
<1>13. DOMAIN s = 1..n
    BY <1>9
<1>14. /\ InOrder(S, before) \in SetToSeqs(S)
       /\ \A i, j \in DOMAIN InOrder(S, before) :
            i < j => <<InOrder(S, before)[i], InOrder(S, before)[j]>> \in before
    BY <1>11, <1>12, <1>13 DEF InOrder
<1>15. InOrder(S, before) \in [1..n -> S]
    BY <1>14 DEF SetToSeqs
<1>16. QED BY <1>1, <1>14, <1>15

\* The results are listed by rank and id: a sequence of the matching documents.
LEMMA ListedType ==
    ASSUME NEW rank \in [Docs -> Ranks]
    PROVE  /\ Listed(rank) \in Seq(Docs)
           /\ \A i \in 1..Len(Listed(rank)) : rank[Listed(rank)[i]] > 0
<1> DEFINE M == {d \in Docs : rank[d] > 0}
           L == Listed(rank)
<1>1. IsFiniteSet(M)
    BY DocsAssumption, FS_Subset
<1>2. \A d \in M : d \in Docs /\ d \in Nat /\ rank[d] \in Nat
    BY DocsAssumption DEF Ranks
<1>3. \A x \in M : <<x, x>> \notin Precedes(rank)
    BY <1>2 DEF Precedes
<1>4. \A x, y \in M : x # y => <<x, y>> \in Precedes(rank) \/ <<y, x>> \in Precedes(rank)
    BY <1>2 DEF Precedes
<1>5. \A x, y, z \in M : <<x, y>> \in Precedes(rank) /\ <<y, z>> \in Precedes(rank)
                         => <<x, z>> \in Precedes(rank)
    BY <1>2 DEF Precedes
<1> HIDE DEF M
<1>6. Cardinality(M) \in Nat /\ InOrder(M, Precedes(rank)) \in [1..Cardinality(M) -> M]
    BY <1>1, <1>3, <1>4, <1>5, InOrderExists
<1>7. L \in [1..Cardinality(M) -> M]
    BY <1>6 DEF Listed, M
<1>8. L \in Seq(M) /\ Len(L) = Cardinality(M)
    BY <1>6, <1>7
<1>9. QED BY <1>6, <1>7, <1>8 DEF M

\* A page of a list holds nothing else.
LEMMA PageOfType ==
    ASSUME NEW S, NEW list \in Seq(S), NEW offset \in Nat
    PROVE  /\ PageOf(list, offset) \in Seq(S)
           /\ \A i \in 1..Len(PageOf(list, offset)) :
                \E j \in 1..Len(list) : PageOf(list, offset)[i] = list[j]
<1> DEFINE m == Min({offset + PageSize, Len(list)})
<1>1. m \in Int /\ m <= Len(list)
  <2>1. Len(list) \in Nat /\ offset + PageSize \in Nat
    BY BoundsAssumption
  <2>2. \E x \in {offset + PageSize, Len(list)} : \A y \in {offset + PageSize, Len(list)} : x <= y
    BY <2>1
  <2>3. m \in {offset + PageSize, Len(list)} /\ \A y \in {offset + PageSize, Len(list)} : m <= y
    BY <2>2 DEF Min
  <2>4. QED BY <2>1, <2>3
<1> HIDE DEF m
<1>2. \A i \in (offset + 1)..m : list[i] \in S
    BY <1>1
<1>3. /\ SubSeq(list, offset + 1, m) \in Seq(S)
      /\ Len(SubSeq(list, offset + 1, m)) = IF offset + 1 <= m THEN m - (offset + 1) + 1 ELSE 0
      /\ \A i \in 1..(m - (offset + 1) + 1) :
           SubSeq(list, offset + 1, m)[i] = list[offset + 1 + i - 1]
    BY <1>1, <1>2, SubSeqProperties
<1>4. PageOf(list, offset) = SubSeq(list, offset + 1, m)
  BY DEF PageOf, m
<1>5. ASSUME NEW i \in 1..Len(PageOf(list, offset))
      PROVE  offset + i \in 1..Len(list) /\ PageOf(list, offset)[i] = list[offset + i]
  <2>1. Len(list) \in Nat
    OBVIOUS
  <2>2. i \in 1..(m - (offset + 1) + 1)
    BY <1>1, <1>3, <1>4
  <2>3. offset + 1 + i - 1 = offset + i /\ offset + i \in 1..Len(list)
    BY <1>1, <2>1, <2>2
  <2>4. QED BY <1>3, <1>4, <2>2, <2>3
<1>6. QED BY <1>3, <1>4, <1>5

-----------------------------------------------------------------------------
(* The invariant.                                                            *)

Cursors == [query : Conditions, generation : Nat, offset : Nat]
Fetches == [pc : {"check", "count", "page", "rank", "core", "answered"}, query : Conditions,
            cursor : Cursors \cup {NoCursor}, append : BOOLEAN, again : BOOLEAN,
            generation : Nat, total : Nat, list : Seq(Docs), items : Seq(Docs),
            next : Cursors \cup {NoCursor}, kind : {"ok", "stale", "failed"},
            drift : SUBSET Docs, gone : SUBSET Docs, late : BOOLEAN]

StoreTypes ==
    /\ core \in [Docs -> Ranks] /\ projected \in [Docs -> Ranks]
    /\ ready \in BOOLEAN
    /\ generation \in Nat \ {0}
    /\ dirty \in SUBSET Docs /\ removed \in SUBSET Seeds /\ loading \in BOOLEAN
PageTypes ==
    /\ query \in Conditions /\ shownFor \in Conditions
    /\ composing \in BOOLEAN /\ timer \in BOOLEAN /\ busy \in BOOLEAN
    /\ newest \in Requests \cup {NoRequest}
    /\ shown \in Seq(Docs) /\ drift \in SUBSET Docs
    /\ screen \in {"results", "error", "start"} /\ buttons \in SUBSET {"more", "retry"}
    /\ cursor \in Cursors \cup {NoCursor} /\ retry \in Cursors \cup {NoCursor}
    /\ wanted \in Nat /\ changes \in Nat /\ inputs \in Nat /\ faults \in Nat
FetchTypes == request \in [Requests -> Fetches \cup {Idle}]
Types == StoreTypes /\ PageTypes /\ FetchTypes

\* A cursor of the present generation comes from a list no document of which,
\* nor any other, has changed, unless the load has removed it: changed is what has
\* changed since the list was begun.
Clean(c, changed) ==
    c # NoCursor =>
        c.generation <= generation /\ (c.generation = generation => changed \subseteq removed)

\* What a fetch may rely on.
FetchOK(f) ==
    /\ f.append => f.cursor # NoCursor /\ Clean(f.cursor, f.drift)
    /\ f.generation <= generation
    /\ f.generation = generation => f.drift \subseteq removed
    /\ f.pc = "check" => f.next = NoCursor
    /\ f.next # NoCursor => f.next.generation = f.generation
    /\ \A d \in f.gone : core[d] = 0
    /\ ToSet(f.items) \cap f.gone = {}
    /\ ~f.late
FetchesOK == \A r \in Requests : request[r] # Idle => FetchOK(request[r])

\* The cursors the page holds.
PageClean == Clean(cursor, drift) /\ Clean(retry, drift)

\* The latest fetch asks for the conditions in the form, from where a retry
\* would start.
NewestOK ==
    newest # NoRequest =>
        /\ request[newest] # Idle
        /\ request[newest].query = query
        /\ retry = IF request[newest].append THEN request[newest].cursor ELSE NoCursor

PagesInv == Types /\ FetchesOK /\ PageClean /\ NewestOK /\ ShownFits

-----------------------------------------------------------------------------
(* What the steps have in common.                                            *)

LEMMA FetchIsIdle ==
    ASSUME NEW f \in Fetches \cup {Idle}
    PROVE  (f = Idle <=> f.pc = "idle") /\ (f # Idle => f \in Fetches)
BY DEF Fetches, Idle

\* A step that leaves the store alone disturbs no fetch it does not touch.
LEMMA FetchOKFrame ==
    ASSUME UNCHANGED <<core, generation, removed>>, NEW f, FetchOK(f)
    PROVE  FetchOK(f)'
BY DEF FetchOK, Clean

\* A fetch goes on, as the fetch it was.
LEMMA FetchMoves ==
    ASSUME PagesInv, NEW r \in Requests, request[r] # Idle,
           NEW g \in Fetches, FetchOK(g),
           g.query = request[r].query, g.append = request[r].append, g.cursor = request[r].cursor,
           request' = [request EXCEPT ![r] = g],
           UNCHANGED <<store, form, newest, busy, page, retry, wanted, changes, inputs>>,
           faults' \in Nat
    PROVE  PagesInv'
<1> USE DEF PagesInv
<1>1. g # Idle
  BY FetchIsIdle DEF Fetches, Idle
<1>2. FetchTypes'
  BY DEF Types, FetchTypes
<1>3. Types'
  BY <1>2 DEF Types, StoreTypes, PageTypes, store, form, page
<1>4. FetchesOK'
  <2> SUFFICES ASSUME NEW s \in Requests, request'[s] # Idle PROVE FetchOK(request[s])'
    BY DEF FetchesOK
  <2>1. PICK f : f = request'[s]
    OBVIOUS
  <2>2. FetchOK(f)
    BY <2>1 DEF Types, FetchTypes, FetchesOK
  <2>3. FetchOK(f)'
    BY <2>2, FetchOKFrame DEF store
  <2>4. QED BY <2>1, <2>3 DEF FetchOK, Clean
<1>5. PageClean'
  BY DEF PageClean, Clean, store, page
<1>6. NewestOK'
  <2> SUFFICES ASSUME newest # NoRequest PROVE NewestOK'
    BY DEF NewestOK
  <2>1. newest \in Requests
    BY DEF Types, PageTypes
  <2>2. CASE newest = r
    BY <1>1, <2>1, <2>2 DEF NewestOK, Types, FetchTypes, form
  <2>3. CASE newest # r
    BY <2>1, <2>3 DEF NewestOK, Types, FetchTypes, form
  <2>4. QED BY <2>2, <2>3
<1>7. ShownFits'
  BY DEF ShownFits, form, page
<1>8. QED BY <1>3, <1>4, <1>5, <1>6, <1>7

\* A fetch begins, for the first page or with a cursor that is clean.
LEMMA BeginOK ==
    ASSUME StoreTypes, drift \in SUBSET Docs,
           NEW r, NEW q \in Conditions, NEW c \in Cursors \cup {NoCursor},
           NEW append \in BOOLEAN, NEW again \in BOOLEAN,
           append => c # NoCursor /\ Clean(c, drift)
    PROVE  /\ Begin(r, q, c, append, again) \in Fetches
           /\ Begin(r, q, c, append, again) # Idle
           /\ FetchOK(Begin(r, q, c, append, again))
           /\ Begin(r, q, c, append, again).query = q
           /\ Begin(r, q, c, append, again).cursor = c
           /\ Begin(r, q, c, append, again).append = append
<1>1. PICK b : b = Begin(r, q, c, append, again)
  OBVIOUS
<1>2. /\ b.pc = "check" /\ b.query = q /\ b.cursor = c /\ b.append = append
      /\ b.generation = 0 /\ b.items = <<>> /\ b.next = NoCursor /\ b.late = FALSE
      /\ b.drift = (IF append THEN drift ELSE {}) /\ b.gone = {d \in Docs : core[d] = 0}
  BY <1>1 DEF Begin
<1>3. b \in Fetches
  <2>1. (IF append THEN drift ELSE {}) \in SUBSET Docs /\ {d \in Docs : core[d] = 0} \in SUBSET Docs
    OBVIOUS
  <2>2. <<>> \in Seq(Docs)
    OBVIOUS
  <2> DEFINE D == IF append THEN drift ELSE {}
             G == {d \in Docs : core[d] = 0}
  <2>3. b = [pc |-> "check", query |-> q, cursor |-> c, append |-> append, again |-> again,
             generation |-> 0, total |-> 0, list |-> <<>>, items |-> <<>>, next |-> NoCursor,
             kind |-> "ok", drift |-> D, gone |-> G, late |-> FALSE]
    BY <1>1 DEF Begin
  <2>4. D \in SUBSET Docs /\ G \in SUBSET Docs
    BY <2>1
  <2> HIDE DEF D, G
  <2>5. QED BY <2>2, <2>3, <2>4 DEF Fetches
<1>4. b # Idle
  BY <1>2 DEF Idle
<1>5. ToSet(b.items) = {}
  BY <1>2 DEF ToSet
<1>6. FetchOK(b)
  <2>1. b.append => b.cursor # NoCursor /\ Clean(b.cursor, b.drift)
    BY <1>2
  <2>2. b.generation <= generation /\ b.generation # generation
    BY <1>2 DEF StoreTypes
  <2>3. \A d \in b.gone : core[d] = 0
    BY <1>2
  <2>4. QED BY <1>2, <1>5, <2>1, <2>2, <2>3 DEF FetchOK
<1>7. QED BY <1>1, <1>2, <1>3, <1>4, <1>6

\* A search begins, over fetches that are as they should be.
LEMMA AskOK ==
    ASSUME PagesInv, NEW r \in Requests, NEW q \in Conditions, NEW c \in Cursors \cup {NoCursor},
           NEW append \in BOOLEAN, NEW again \in BOOLEAN,
           append => c # NoCursor /\ Clean(c, drift),
           NEW table \in [Requests -> Fetches \cup {Idle}],
           \A s \in Requests : table[s] # Idle => FetchOK(table[s]),
           Ask(r, q, c, append, again, table), query' = q,
           UNCHANGED <<store, composing, page>>,
           wanted' \in Nat, changes' \in Nat, inputs' \in Nat, faults' \in Nat
    PROVE  PagesInv'
<1> USE DEF PagesInv
<1>1. PICK b : b = Begin(r, q, c, append, again)
  OBVIOUS
<1>2. b \in Fetches /\ b # Idle /\ FetchOK(b) /\ b.query = q /\ b.cursor = c /\ b.append = append
  BY <1>1, BeginOK DEF Types, PageTypes
<1>3. /\ request' = [table EXCEPT ![r] = b]
      /\ newest' = r /\ timer' = FALSE /\ busy' = TRUE
      /\ retry' = IF append THEN c ELSE NoCursor
  BY <1>1 DEF Ask
<1>4. FetchTypes'
  BY <1>2, <1>3 DEF FetchTypes
<1>5. Types'
  BY <1>3, <1>4 DEF Types, StoreTypes, PageTypes, store, page
<1>6. FetchesOK'
  <2> SUFFICES ASSUME NEW s \in Requests, request'[s] # Idle PROVE FetchOK(request[s])'
    BY DEF FetchesOK
  <2>1. PICK f : f = request'[s]
    OBVIOUS
  <2>2. FetchOK(f)
    BY <2>1, <1>2, <1>3
  <2>3. FetchOK(f)'
    BY <2>2, FetchOKFrame DEF store
  <2>4. QED BY <2>1, <2>3 DEF FetchOK, Clean
<1>7. PageClean'
  BY <1>3 DEF PageClean, Clean, store, page
<1>8. NewestOK'
  BY <1>2, <1>3 DEF NewestOK
<1>9. ShownFits'
  BY <1>3 DEF ShownFits
<1>10. QED BY <1>5, <1>6, <1>7, <1>8, <1>9

-----------------------------------------------------------------------------
(* Answers.                                                                  *)

\* Documents read again from the core tables match there.
LEMMA StillMatchingType ==
    ASSUME core \in [Docs -> Ranks], NEW list \in Seq(Docs)
    PROVE  /\ StillMatching(list) \in Seq(Docs)
           /\ \A i \in 1..Len(StillMatching(list)) : core[StillMatching(list)[i]] > 0
<1> DEFINE kept == {i \in DOMAIN list : core[list[i]] > 0}
           before == {p \in kept \X kept : p[1] < p[2]}
           n == Cardinality(kept)
<1>1. kept \in SUBSET (1..Len(list)) /\ Len(list) \in Nat
  OBVIOUS
<1>2. IsFiniteSet(kept)
  BY <1>1, FS_Interval, FS_Subset
<1>3. \A i \in kept : list[i] \in Docs /\ core[list[i]] > 0 /\ i \in Nat
  BY <1>1
<1>4. StillMatching(list) = [k \in 1..n |-> list[InOrder(kept, before)[k]]]
  BY DEF StillMatching
<1> HIDE DEF kept
<1>5. /\ \A x \in kept : <<x, x>> \notin before
      /\ \A x, y \in kept : x # y => <<x, y>> \in before \/ <<y, x>> \in before
      /\ \A x, y, z \in kept : <<x, y>> \in before /\ <<y, z>> \in before => <<x, z>> \in before
  BY <1>3
<1> HIDE DEF before
<1>6. n \in Nat /\ InOrder(kept, before) \in [1..n -> kept]
  BY <1>2, <1>5, InOrderExists
<1> HIDE DEF n
<1>7. \A k \in 1..n : list[InOrder(kept, before)[k]] \in Docs /\ core[list[InOrder(kept, before)[k]]] > 0
  BY <1>3, <1>6
<1>8. QED BY <1>4, <1>6, <1>7

\* Documents that match are none of those that have not.
LEMMA MatchingNotGone ==
    ASSUME NEW items \in Seq(Docs), NEW gone, \A d \in gone : core[d] = 0,
           \A i \in 1..Len(items) : core[items[i]] > 0
    PROVE  ToSet(items) \cap gone = {}
BY DEF ToSet

\* nextCursor is of the generation the fetch has checked.
LEMMA CursorAfterType ==
    ASSUME NEW r, request[r] \in Fetches, NEW consumed \in Nat, NEW total
    PROVE  /\ CursorAfter(r, consumed, total) \in Cursors \cup {NoCursor}
           /\ CursorAfter(r, consumed, total) # NoCursor =>
                CursorAfter(r, consumed, total).generation = request[r].generation
<1>1. Offset(request[r].cursor) \in Nat
  BY DEF Offset, Fetches, Cursors
<1>2. request[r].query \in Conditions /\ request[r].generation \in Nat
  BY DEF Fetches
<1>3. Offset(request[r].cursor) + consumed \in Nat
  BY <1>1
<1>4. QED BY <1>2, <1>3 DEF CursorAfter, Cursors

\* The answer a fetch gets: matching documents and the cursor after them.
LEMMA AnswerOK ==
    ASSUME PagesInv, NEW r \in Requests, request[r] # Idle, NEW items \in Seq(Docs),
           \A i \in 1..Len(items) : core[items[i]] > 0,
           NEW consumed \in Nat, NEW total,
           Answer(r, items, CursorAfter(r, consumed, total)),
           UNCHANGED <<store, form, newest, busy, page, retry, wanted, counts>>
    PROVE  PagesInv'
<1>1. request[r] \in Fetches /\ FetchOK(request[r])
  BY FetchIsIdle DEF PagesInv, Types, FetchTypes, FetchesOK
<1>2. PICK f : f = request[r]
  OBVIOUS
<1>3. PICK next : next = CursorAfter(r, consumed, total)
  OBVIOUS
<1>4. next \in Cursors \cup {NoCursor} /\ (next # NoCursor => next.generation = f.generation)
  BY <1>1, <1>2, <1>3, CursorAfterType
<1>5. PICK g : g = [f EXCEPT !.pc = "answered", !.items = items, !.next = next,
                             !.list = <<>>, !.total = 0]
  OBVIOUS
<1>6. g \in Fetches
  <2>1. <<>> \in Seq(Docs)
    OBVIOUS
  <2>2. QED BY <1>1, <1>2, <1>4, <1>5, <2>1 DEF Fetches
<1>7. /\ g.pc = "answered" /\ g.items = items /\ g.next = next
      /\ g.query = f.query /\ g.append = f.append /\ g.cursor = f.cursor /\ g.drift = f.drift
      /\ g.generation = f.generation /\ g.gone = f.gone /\ g.late = f.late
  BY <1>1, <1>2, <1>5 DEF Fetches
<1>8. ToSet(g.items) \cap g.gone = {}
  BY <1>1, <1>2, <1>7, MatchingNotGone DEF FetchOK
<1>9. FetchOK(g)
  BY <1>1, <1>2, <1>4, <1>7, <1>8 DEF FetchOK, Clean
<1>10. request' = [request EXCEPT ![r] = g]
  BY <1>2, <1>3, <1>5 DEF Answer
<1>11. faults' \in Nat
  BY DEF PagesInv, Types, PageTypes, counts
<1>12. QED BY <1>2, <1>6, <1>7, <1>9, <1>10, <1>11, FetchMoves DEF counts

-----------------------------------------------------------------------------
(* The server's steps.                                                       *)

\* The generation tells what it need not look at: with a cursor of the present
\* one, nothing has changed since its list was begun.
LEMMA CheckStep ==
    ASSUME PagesInv, NEW r \in Requests, Check(r)
    PROVE  PagesInv'
<1> USE DEF PagesInv
<1>1. PICK f : f = request[r]
  OBVIOUS
<1>2. f.pc = "check" /\ f # Idle /\ f \in Fetches /\ FetchOK(f)
  BY <1>1, FetchIsIdle DEF Check, Types, FetchTypes, FetchesOK, Idle
<1>3. faults' \in Nat /\ generation \in Nat
  BY DEF Types, PageTypes, StoreTypes, Check, counts
<1>4. CASE CursorHolds(f.cursor, f.query)
  <2>1. PICK g : g = [request[r] EXCEPT !.pc = "count", !.generation = generation,
                               !.drift = IF request[r].append THEN request[r].drift ELSE {},
                               !.late = request[r].append
                                            /\ ~(request[r].drift \subseteq removed)]
    OBVIOUS
  <2>2. request' = [request EXCEPT ![r] = g]
    BY <1>1, <1>4, <2>1 DEF Check
  <2>3. f.append => f.drift \subseteq removed
    BY <1>2, <1>4 DEF CursorHolds, FetchOK, Clean
  <2>4. f.drift \in SUBSET Docs /\ f.append \in BOOLEAN
    BY <1>2 DEF Fetches
  <2>10. PICK D : D = IF f.append THEN f.drift ELSE {}
    OBVIOUS
  <2>11. D \in SUBSET Docs /\ D \subseteq removed /\ (f.append => D = f.drift)
    BY <2>3, <2>4, <2>10
  <2>5. g = [f EXCEPT !.pc = "count", !.generation = generation, !.drift = D, !.late = FALSE]
    BY <1>1, <2>1, <2>3, <2>4, <2>10
  <2>6. g \in Fetches
    BY <1>2, <1>3, <2>5, <2>11 DEF Fetches
  <2>7. /\ g.pc = "count" /\ g.generation = generation /\ g.drift = D /\ g.late = FALSE
        /\ g.query = f.query /\ g.append = f.append /\ g.cursor = f.cursor
        /\ g.next = f.next /\ g.items = f.items /\ g.gone = f.gone
    BY <1>2, <2>5 DEF Fetches
  <2>8. FetchOK(g)
    BY <1>2, <1>3, <2>3, <2>7, <2>11 DEF FetchOK, Clean
  <2>9. QED BY <1>1, <1>2, <1>3, <2>2, <2>6, <2>7, <2>8, FetchMoves DEF Check, counts
<1>5. CASE ~CursorHolds(f.cursor, f.query)
  <2>1. PICK g : g = [f EXCEPT !.pc = "answered", !.kind = "stale"]
    OBVIOUS
  <2>2. request' = [request EXCEPT ![r] = g]
    BY <1>1, <1>5, <2>1 DEF Check
  <2>3. g \in Fetches
    BY <1>2, <2>1 DEF Fetches
  <2>4. /\ g.generation = f.generation /\ g.drift = f.drift /\ g.late = f.late /\ g.pc = "answered"
        /\ g.query = f.query /\ g.append = f.append /\ g.cursor = f.cursor
        /\ g.next = f.next /\ g.items = f.items /\ g.gone = f.gone
    BY <1>2, <2>1 DEF Fetches
  <2>5. FetchOK(g)
    BY <1>2, <2>4 DEF FetchOK, Clean
  <2>6. QED BY <1>1, <1>2, <1>3, <2>2, <2>3, <2>4, <2>5, FetchMoves DEF Check, counts
<1>6. QED BY <1>4, <1>5

LEMMA FromCoreStep ==
    ASSUME PagesInv, NEW r \in Requests, FromCore(r)
    PROVE  PagesInv'
<1>1. request[r] # Idle /\ request[r] \in Fetches
  BY FetchIsIdle DEF PagesInv, Types, FetchTypes, FromCore, Idle
<1>2. Offset(request[r].cursor) \in Nat
  BY <1>1 DEF Fetches, Cursors, Offset
<1>3. /\ Listed(core) \in Seq(Docs)
      /\ \A i \in 1..Len(Listed(core)) : core[Listed(core)[i]] > 0
  BY ListedType DEF PagesInv, Types, StoreTypes
<1>4. /\ CorePage(r) \in Seq(Docs)
      /\ \A i \in 1..Len(CorePage(r)) : core[CorePage(r)[i]] > 0
  BY <1>2, <1>3, PageOfType DEF CorePage
<1>5. Len(CorePage(r)) \in Nat
  BY <1>4
<1>6. QED BY <1>1, <1>4, <1>5, AnswerOK DEF FromCore

LEMMA CountNamedStep ==
    ASSUME PagesInv, NEW r \in Requests, CountNamed(r)
    PROVE  PagesInv'
<1> USE DEF PagesInv
<1>1. PICK f : f = request[r]
  OBVIOUS
<1>2. f.pc = "count" /\ f # Idle /\ f \in Fetches /\ FetchOK(f)
  BY <1>1, FetchIsIdle DEF CountNamed, Types, FetchTypes, FetchesOK, Idle
<1>3. faults' \in Nat /\ Len(Listed(core)) \in Nat
  BY ListedType DEF Types, PageTypes, StoreTypes, CountNamed, counts
<1>4. PICK g : g = [f EXCEPT !.pc = "page", !.total = Len(Listed(core))]
  OBVIOUS
<1>5. request' = [request EXCEPT ![r] = g]
  BY <1>1, <1>4 DEF CountNamed, Types, FetchTypes
<1>6. g \in Fetches
  BY <1>2, <1>3, <1>4 DEF Fetches
<1>7. /\ g.generation = f.generation /\ g.drift = f.drift /\ g.late = f.late /\ g.pc = "page"
      /\ g.query = f.query /\ g.append = f.append /\ g.cursor = f.cursor
      /\ g.next = f.next /\ g.items = f.items /\ g.gone = f.gone
  BY <1>2, <1>4 DEF Fetches
<1>8. FetchOK(g)
  BY <1>2, <1>7 DEF FetchOK, Clean
<1>9. QED BY <1>1, <1>2, <1>3, <1>5, <1>6, <1>7, <1>8, FetchMoves DEF CountNamed, counts

LEMMA ReadNamedStep ==
    ASSUME PagesInv, NEW r \in Requests, ReadNamed(r)
    PROVE  PagesInv'
<1>1. request[r] # Idle /\ request[r] \in Fetches
  BY FetchIsIdle DEF PagesInv, Types, FetchTypes, ReadNamed, Idle
<1>2. Offset(request[r].cursor) \in Nat
  BY <1>1 DEF Fetches, Cursors, Offset
<1>3. /\ Listed(core) \in Seq(Docs)
      /\ \A i \in 1..Len(Listed(core)) : core[Listed(core)[i]] > 0
  BY ListedType DEF PagesInv, Types, StoreTypes
<1>4. /\ CorePage(r) \in Seq(Docs)
      /\ \A i \in 1..Len(CorePage(r)) : core[CorePage(r)[i]] > 0
  BY <1>2, <1>3, PageOfType DEF CorePage
<1>5. Len(CorePage(r)) \in Nat
  BY <1>4
<1>6. QED BY <1>1, <1>4, <1>5, AnswerOK DEF ReadNamed

LEMMA CountStep ==
    ASSUME PagesInv, NEW r \in Requests, Count(r)
    PROVE  PagesInv'
<1> USE DEF PagesInv
<1>1. PICK f : f = request[r]
  OBVIOUS
<1>2. f.pc = "count" /\ f # Idle /\ f \in Fetches /\ FetchOK(f)
  BY <1>1, FetchIsIdle DEF Count, Types, FetchTypes, FetchesOK, Idle
<1>3. faults' \in Nat /\ Len(Listed(projected)) \in Nat
  BY ListedType DEF Types, PageTypes, StoreTypes, Count, counts
<1>4. PICK g : g = [f EXCEPT !.pc = "rank", !.total = Len(Listed(projected))]
  OBVIOUS
<1>5. request' = [request EXCEPT ![r] = g]
  BY <1>1, <1>4 DEF Count, Types, FetchTypes
<1>6. g \in Fetches
  BY <1>2, <1>3, <1>4 DEF Fetches
<1>7. /\ g.generation = f.generation /\ g.drift = f.drift /\ g.late = f.late /\ g.pc = "rank"
      /\ g.query = f.query /\ g.append = f.append /\ g.cursor = f.cursor
      /\ g.next = f.next /\ g.items = f.items /\ g.gone = f.gone
  BY <1>2, <1>4 DEF Fetches
<1>8. FetchOK(g)
  BY <1>2, <1>7 DEF FetchOK, Clean
<1>9. QED BY <1>1, <1>2, <1>3, <1>5, <1>6, <1>7, <1>8, FetchMoves DEF Count, counts

LEMMA RankStep ==
    ASSUME PagesInv, NEW r \in Requests, Rank(r)
    PROVE  PagesInv'
<1> USE DEF PagesInv
<1>1. PICK f : f = request[r]
  OBVIOUS
<1>2. f.pc = "rank" /\ f # Idle /\ f \in Fetches /\ FetchOK(f)
  BY <1>1, FetchIsIdle DEF Rank, Types, FetchTypes, FetchesOK, Idle
<1>3. faults' \in Nat /\ Listed(projected) \in Seq(Docs)
  BY ListedType DEF Types, PageTypes, StoreTypes, Rank, counts
<1>4. PICK list : list = IF f.query \in Fuzzy THEN Listed(projected)
                         ELSE PageOf(Listed(projected), Offset(f.cursor))
  OBVIOUS
<1>5. list \in Seq(Docs)
  <2>1. Offset(f.cursor) \in Nat
    BY <1>2 DEF Fetches, Cursors, Offset
  <2>2. QED BY <1>3, <1>4, <2>1, PageOfType
<1>6. PICK g : g = [f EXCEPT !.pc = "core", !.list = list]
  OBVIOUS
<1>7. request' = [request EXCEPT ![r] = g]
  BY <1>1, <1>4, <1>6 DEF Rank, Types, FetchTypes
<1>8. g \in Fetches
  BY <1>2, <1>5, <1>6 DEF Fetches
<1>9. /\ g.generation = f.generation /\ g.drift = f.drift /\ g.late = f.late /\ g.pc = "core"
      /\ g.query = f.query /\ g.append = f.append /\ g.cursor = f.cursor
      /\ g.next = f.next /\ g.items = f.items /\ g.gone = f.gone
  BY <1>2, <1>6 DEF Fetches
<1>10. FetchOK(g)
  BY <1>2, <1>9 DEF FetchOK, Clean
<1>11. QED BY <1>1, <1>2, <1>3, <1>7, <1>8, <1>9, <1>10, FetchMoves DEF Rank, counts

LEMMA ReadCoreStep ==
    ASSUME PagesInv, NEW r \in Requests, ReadCore(r)
    PROVE  PagesInv'
<1> DEFINE kept == StillMatching(request[r].list)
<1>1. request[r] # Idle /\ request[r] \in Fetches
  BY FetchIsIdle DEF PagesInv, Types, FetchTypes, ReadCore, Idle
<1>2. Offset(request[r].cursor) \in Nat /\ request[r].list \in Seq(Docs)
  BY <1>1 DEF Fetches, Cursors, Offset
<1>3. kept \in Seq(Docs) /\ \A i \in 1..Len(kept) : core[kept[i]] > 0
  BY <1>2, StillMatchingType DEF PagesInv, Types, StoreTypes
<1>4. UNCHANGED <<store, form, newest, busy, page, retry, wanted, counts>>
  BY DEF ReadCore
<1> DEFINE items == PageOf(kept, Offset(request[r].cursor))
<1> HIDE DEF kept
<1>5. CASE request[r].query \in Fuzzy
  <2>1. items \in Seq(Docs) /\ \A i \in 1..Len(items) : core[items[i]] > 0
    BY <1>2, <1>3, PageOfType
  <2>2. Answer(r, items, CursorAfter(r, Len(items), Len(kept)))
    BY <1>5 DEF ReadCore, kept
  <2> HIDE DEF items
  <2>3. Len(items) \in Nat
    BY <2>1
  <2>4. QED BY <1>1, <1>4, <2>1, <2>2, <2>3, AnswerOK
<1>6. CASE request[r].query \notin Fuzzy
  <2>1. Answer(r, kept, CursorAfter(r, Len(request[r].list), request[r].total))
    BY <1>6 DEF ReadCore, kept
  <2>2. Len(request[r].list) \in Nat
    BY <1>2
  <2>3. QED BY <1>1, <1>3, <1>4, <2>1, <2>2, AnswerOK
<1>7. QED BY <1>5, <1>6

LEMMA FailStep ==
    ASSUME PagesInv, NEW r \in Requests, Fail(r)
    PROVE  PagesInv'
<1> USE DEF PagesInv
<1>1. PICK f : f = request[r]
  OBVIOUS
<1>2. f # Idle /\ f \in Fetches /\ FetchOK(f)
  BY <1>1, FetchIsIdle DEF Fail, Types, FetchTypes, FetchesOK, Idle
<1>3. faults' \in Nat
  BY DEF Types, PageTypes, Fail
<1>4. PICK g : g = [f EXCEPT !.pc = "answered", !.kind = "failed", !.list = <<>>, !.total = 0]
  OBVIOUS
<1>5. request' = [request EXCEPT ![r] = g]
  BY <1>1, <1>4 DEF Fail, Types, FetchTypes
<1>6. g \in Fetches
  <2>1. <<>> \in Seq(Docs)
    OBVIOUS
  <2>2. QED BY <1>2, <1>4, <2>1 DEF Fetches
<1>7. /\ g.generation = f.generation /\ g.drift = f.drift /\ g.late = f.late /\ g.pc = "answered"
      /\ g.query = f.query /\ g.append = f.append /\ g.cursor = f.cursor
      /\ g.next = f.next /\ g.items = f.items /\ g.gone = f.gone
  BY <1>2, <1>4 DEF Fetches
<1>8. FetchOK(g)
  BY <1>2, <1>7 DEF FetchOK, Clean
<1>9. QED BY <1>1, <1>2, <1>3, <1>5, <1>6, <1>7, <1>8, FetchMoves DEF Fail

-----------------------------------------------------------------------------
(* Documents and their projection.                                           *)

\* The generation has moved on, or what has changed is the samples removed.
Told(X) ==
    \/ generation' = generation + 1
    \/ generation' = generation /\ removed \cup X \subseteq removed'

\* What a cursor stands for after a change that is told of.
LEMMA CleanAfter ==
    ASSUME StoreTypes, NEW X, Told(X), NEW c \in Cursors \cup {NoCursor}, NEW D, Clean(c, D)
    PROVE  Clean(c, D \cup X)'
BY DEF Clean, Cursors, StoreTypes, Told

\* The core tables change, and the generation tells or the load has removed them.
LEMMA BecomeStep ==
    ASSUME PagesInv, NEW C \in [Docs -> Ranks], Become(C), Told({d \in Docs : C[d] # core[d]}),
           StoreTypes', changes' \in Nat
    PROVE  PagesInv'
<1> USE DEF PagesInv
<1>1. PICK X : X = {d \in Docs : C[d] # core[d]}
  OBVIOUS
<1>2. X \in SUBSET Docs /\ Told(X) /\ core' = C /\ drift' = drift \cup X /\ generation \in Nat
      /\ generation' \in Nat /\ generation <= generation'
  <2>1. X \in SUBSET Docs /\ core' = C /\ drift' = drift \cup X
    BY <1>1 DEF Become
  <2>2. Told(X)
    BY <1>1
  <2>3. generation \in Nat
    BY DEF Types, StoreTypes
  <2>4. QED BY <2>1, <2>2, <2>3 DEF Told
<1>3. ASSUME NEW r \in Requests, request[r] # Idle
      PROVE  /\ request'[r] \in Fetches /\ FetchOK(request[r])' /\ request'[r] # Idle
             /\ request'[r].query = request[r].query /\ request'[r].append = request[r].append
             /\ request'[r].cursor = request[r].cursor
  <2>1. PICK f : f = request[r]
    OBVIOUS
  <2>2. f.pc # "idle" /\ f \in Fetches /\ FetchOK(f)
    BY <1>3, <2>1, FetchIsIdle DEF Types, FetchTypes, FetchesOK
  <2>3. PICK gone : gone = {d \in f.gone : C[d] = 0}
    OBVIOUS
  <2>4. gone \subseteq f.gone /\ (\A d \in gone : core'[d] = 0) /\ gone \in SUBSET Docs
        /\ f.drift \cup X \in SUBSET Docs
    BY <1>2, <2>2, <2>3 DEF Fetches
  <2>5. PICK g : g = [f EXCEPT !.drift = f.drift \cup X, !.gone = gone]
    OBVIOUS
  <2>6. request'[r] = g
    BY <1>1, <2>1, <2>2, <2>3, <2>5 DEF Become
  <2>7. g \in Fetches
    BY <2>2, <2>4, <2>5 DEF Fetches
  <2>8. /\ g.pc = f.pc /\ g.query = f.query /\ g.append = f.append /\ g.cursor = f.cursor
        /\ g.generation = f.generation /\ g.items = f.items /\ g.next = f.next /\ g.late = f.late
        /\ g.gone = gone /\ g.drift = f.drift \cup X
    BY <2>2, <2>5 DEF Fetches
  <2>9. f.cursor \in Cursors \cup {NoCursor} /\ f.generation \in Nat
    BY <2>2 DEF Fetches
  <2>10. g.append => g.cursor # NoCursor /\ Clean(g.cursor, g.drift)'
    <3>1. SUFFICES ASSUME f.append PROVE f.cursor # NoCursor /\ Clean(f.cursor, f.drift \cup X)'
      BY <2>8 DEF Clean
    <3>2. PICK c, D : c = f.cursor /\ D = f.drift
      OBVIOUS
    <3>3. c # NoCursor /\ Clean(c, D)
      BY <2>2, <3>1, <3>2 DEF FetchOK
    <3>4. Clean(c, D \cup X)'
      BY <1>2, <2>9, <3>2, <3>3, CleanAfter DEF Types
    <3>5. QED BY <3>2, <3>3, <3>4 DEF Clean
  <2>11. g.generation <= generation' /\ (g.generation = generation' => g.drift \subseteq removed')
    BY <1>2, <2>2, <2>8, <2>9 DEF FetchOK, Told
  <2>12. FetchOK(g)'
    BY <2>2, <2>4, <2>8, <2>10, <2>11 DEF FetchOK
  <2>13. g # Idle
    BY <2>2, <2>8 DEF Idle
  <2>14. FetchOK(request[r])'
    BY <2>6, <2>12 DEF FetchOK, Clean
  <2>15. QED BY <2>1, <2>6, <2>7, <2>8, <2>13, <2>14
<1>4. ASSUME NEW r \in Requests, request[r] = Idle
      PROVE  request'[r] = Idle
  BY <1>4 DEF Become, Idle
<1>5. FetchTypes'
  <2>1. /\ DOMAIN request' = Requests
        /\ request' = [r \in Requests |-> request'[r]]
    BY DEF Become
  <2>2. \A r \in Requests : request'[r] \in Fetches \cup {Idle}
    BY <1>3, <1>4
  <2>3. QED BY <2>1, <2>2 DEF FetchTypes
<1>6. PageTypes'
  BY <1>2 DEF Become, Types, PageTypes, form
<1>7. FetchesOK'
  BY <1>3, <1>4 DEF FetchesOK
<1>8. PageClean'
  <2>1. PICK c, t, D : c = cursor /\ t = retry /\ D = drift
    OBVIOUS
  <2>2. c \in Cursors \cup {NoCursor} /\ t \in Cursors \cup {NoCursor}
    BY <2>1 DEF Types, PageTypes
  <2>3. Clean(c, D) /\ Clean(t, D)
    BY <2>1 DEF PageClean
  <2>4. Clean(c, D \cup X)' /\ Clean(t, D \cup X)'
    BY <1>2, <2>2, <2>3, CleanAfter DEF Types
  <2>5. QED BY <1>2, <2>1, <2>4 DEF Become, PageClean, Clean
<1>9. NewestOK'
  <2> SUFFICES ASSUME newest # NoRequest PROVE NewestOK'
    BY DEF NewestOK, Become
  <2>1. newest \in Requests
    BY DEF Types, PageTypes
  <2>2. QED BY <1>3, <2>1 DEF NewestOK, Become, form
<1>10. ShownFits'
  BY DEF ShownFits, Become, form
<1>11. QED BY <1>5, <1>6, <1>7, <1>8, <1>9, <1>10 DEF Types

LEMMA ChangeDocumentStep ==
    ASSUME PagesInv, NEW d \in Docs, NEW rank \in Ranks, ChangeDocument(d, rank)
    PROVE  PagesInv'
<1>1. PICK C : C = [core EXCEPT ![d] = rank]
  OBVIOUS
<1>2. C \in [Docs -> Ranks] /\ Become(C)
  BY <1>1 DEF ChangeDocument, PagesInv, Types, StoreTypes, Become
<1>3. generation' = generation + 1 /\ changes' = changes + 1 /\ generation \in Nat /\ changes \in Nat
  BY DEF ChangeDocument, NextGeneration, PagesInv, Types, StoreTypes, PageTypes
<1>4. StoreTypes'
  <2>1. core' = C /\ projected' = projected
    BY <1>2 DEF Become
  <2>2. dirty' = dirty \cup {d} /\ UNCHANGED <<ready, removed, loading>>
    BY DEF ChangeDocument
  <2>3. dirty' \in SUBSET Docs
    BY <2>2 DEF PagesInv, Types, StoreTypes
  <2>4. generation' \in Nat \ {0}
    BY <1>3
  <2>5. QED BY <1>2, <2>1, <2>2, <2>3, <2>4 DEF PagesInv, Types, StoreTypes
<1>5. QED BY <1>2, <1>3, <1>4, BecomeStep DEF Told

LEMMA InsteadType ==
    ASSUME NEW rank \in [Docs \ Seeds -> Ranks]
    PROVE  Instead(rank) \in [Docs -> Ranks]
BY BoundsAssumption DEF Instead, Ranks

\* The samples vanish unannounced; nothing else does.
LEMMA RemoveSamplesStep ==
    ASSUME PagesInv, RemoveSamples
    PROVE  PagesInv'
<1>1. PICK C : C = Instead(core)
  OBVIOUS
<1>2. C \in [Docs -> Ranks] /\ Become(C)
  <2>1. core \in [Docs -> Ranks] /\ 0 \in Ranks
    BY BoundsAssumption DEF Ranks, PagesInv, Types, StoreTypes
  <2>2. C \in [Docs -> Ranks]
    BY <1>1, <2>1 DEF Instead
  <2>3. Become(Instead(core))
    BY DEF RemoveSamples
  <2>4. QED BY <1>1, <2>2, <2>3
<1>3. changes' = changes + 1 /\ changes \in Nat /\ generation' = generation
      /\ removed = {} /\ removed' = Seeds
  BY DEF RemoveSamples, OnlySamples, PagesInv, Types, PageTypes
<1>4. {d \in Docs : C[d] # core[d]} \subseteq Seeds
  BY <1>1 DEF Instead
<1>5. Told({d \in Docs : C[d] # core[d]})
  BY <1>3, <1>4 DEF Told
<1>6. StoreTypes'
  <2>1. core' = C /\ projected' = projected
    BY <1>2 DEF Become
  <2>2. loading' = TRUE /\ UNCHANGED <<ready, generation, dirty>>
    BY DEF RemoveSamples
  <2>3. removed' \in SUBSET Seeds
    BY <1>3
  <2>4. QED BY <1>2, <2>1, <2>2, <2>3 DEF PagesInv, Types, StoreTypes
<1>7. QED BY <1>2, <1>3, <1>5, <1>6, BecomeStep

LEMMA LoadStep ==
    ASSUME PagesInv, NEW rank \in [Docs \ Seeds -> Ranks], EndLoad(rank) \/ LoadAtOnce(rank)
    PROVE  PagesInv'
<1>1. PICK C : C = Instead(rank)
  OBVIOUS
<1>2. C \in [Docs -> Ranks] /\ Become(C)
  BY <1>1, InsteadType DEF EndLoad, LoadAtOnce, Become
<1>3. generation' = generation + 1 /\ changes' \in Nat /\ generation \in Nat
  BY DEF EndLoad, LoadAtOnce, NextGeneration, PagesInv, Types, StoreTypes, PageTypes
<1>4. StoreTypes'
  <2>1. core' = C /\ projected' = projected
    BY <1>2 DEF Become
  <2>2. ready' = FALSE /\ dirty' = dirty
    BY DEF EndLoad, LoadAtOnce
  <2>3. removed' \in SUBSET Seeds /\ loading' \in BOOLEAN
    BY DEF EndLoad, LoadAtOnce, PagesInv, Types, StoreTypes
  <2>4. generation' \in Nat \ {0}
    BY <1>3
  <2>5. QED BY <1>2, <2>1, <2>2, <2>3, <2>4 DEF PagesInv, Types, StoreTypes
<1>5. QED BY <1>2, <1>3, <1>4, BecomeStep DEF Told

\* The fetches and the page stay, the generation and the core tables too.
LEMMA StoreFrame ==
    ASSUME PagesInv, StoreTypes', changes' \in Nat,
           UNCHANGED <<core, generation, removed, request, form, newest, busy, page, retry, wanted,
                       inputs, faults>>
    PROVE  PagesInv'
<1> USE DEF PagesInv
<1>1. Types'
  BY DEF Types, PageTypes, FetchTypes, form, page
<1>2. FetchesOK' /\ PageClean'
  BY DEF FetchesOK, FetchOK, PageClean, Clean, page
<1>3. NewestOK' /\ ShownFits'
  BY DEF NewestOK, ShownFits, form, page
<1>4. QED BY <1>1, <1>2, <1>3

LEMMA ProjectionStep ==
    ASSUME PagesInv, (\E d \in Docs : DrainDocument(d)) \/ EndRebuild
    PROVE  PagesInv'
<1>1. changes' \in Nat
  BY DEF PagesInv, Types, PageTypes, DrainDocument, EndRebuild, counts
<1>3. UNCHANGED <<core, generation, removed, loading>>
  BY DEF DrainDocument, EndRebuild
<1>4. projected' \in [Docs -> Ranks] /\ dirty' \in SUBSET Docs /\ ready' \in BOOLEAN
  <2>1. ASSUME NEW d \in Docs, DrainDocument(d)
        PROVE  projected' \in [Docs -> Ranks] /\ dirty' \in SUBSET Docs /\ ready' \in BOOLEAN
    BY <2>1 DEF PagesInv, Types, StoreTypes, DrainDocument
  <2>2. CASE EndRebuild
    BY <2>2 DEF PagesInv, Types, StoreTypes, EndRebuild
  <2>3. QED BY <2>1, <2>2
<1>5. StoreTypes'
  BY <1>3, <1>4 DEF PagesInv, Types, StoreTypes
<1>6. UNCHANGED <<request, form, newest, busy, page, retry, wanted, inputs, faults>>
  BY DEF DrainDocument, EndRebuild, counts
<1>7. QED BY <1>1, <1>3, <1>5, <1>6, StoreFrame

-----------------------------------------------------------------------------
(* The browser.                                                              *)

\* The user does something that gives the latest fetch up, and nothing of what
\* fetches and page rely on moves.
LEMMA InvalidateFrame ==
    ASSUME PagesInv, newest' = NoRequest,
           UNCHANGED <<store, request, page, retry>>,
           PageTypes', ShownFits'
    PROVE  PagesInv'
<1> USE DEF PagesInv
<1>1. Types'
  BY DEF Types, StoreTypes, FetchTypes, store
<1>2. FetchesOK' /\ PageClean'
  BY DEF FetchesOK, FetchOK, PageClean, Clean, store, page
<1>3. QED BY <1>1, <1>2 DEF NewestOK

LEMMA InputStep ==
    ASSUME PagesInv, NEW q \in Conditions, Type(q) \/ EndComposing(q) \/ StartComposing
    PROVE  PagesInv'
<1> USE DEF PagesInv
<1>1. CASE Type(q)
  BY <1>1, InvalidateFrame DEF Type, Invalidate, ShownFits, Types, PageTypes, page
<1>2. CASE EndComposing(q)
  BY <1>2, InvalidateFrame DEF EndComposing, Invalidate, ShownFits, Types, PageTypes, page, counts
<1>3. CASE StartComposing
  <2>1. ShownFits'
    BY <1>3 DEF StartComposing, ShownFits
  <2>2. inputs' \in Nat
    BY <1>3 DEF StartComposing, Types, PageTypes
  <2>3. PageTypes'
    BY <1>3, <2>2 DEF StartComposing, Invalidate, Types, PageTypes, page
  <2>4. QED BY <1>3, <2>1, <2>3, InvalidateFrame DEF StartComposing, Invalidate
<1>4. QED BY <1>1, <1>2, <1>3

LEMMA SearchStep ==
    ASSUME PagesInv, NEW r \in Requests, NEW q \in Conditions,
           Open(r) \/ Debounced(r) \/ More(r) \/ Retry(r) \/ ChangeConditions(q, r)
    PROVE  PagesInv'
<1> USE DEF PagesInv
<1>1. /\ request \in [Requests -> Fetches \cup {Idle}]
      /\ \A s \in Requests : request[s] # Idle => FetchOK(request[s])
      /\ query \in Conditions
      /\ wanted \in Nat /\ changes \in Nat /\ inputs \in Nat /\ inputs + 1 \in Nat /\ faults \in Nat
      /\ cursor \in Cursors \cup {NoCursor} /\ retry \in Cursors \cup {NoCursor}
      /\ Clean(cursor, drift) /\ Clean(retry, drift)
  BY DEF Types, PageTypes, FetchTypes, FetchesOK, PageClean
<1>2. CASE Open(r)
  <2>1. Ask(r, query, NoCursor, FALSE, FALSE, request) /\ query' = query
    BY <1>2 DEF Open
  <2>2. UNCHANGED <<store, composing, page>> /\ wanted' \in Nat /\ changes' \in Nat
        /\ inputs' \in Nat /\ faults' \in Nat
    BY <1>1, <1>2 DEF Open, counts
  <2>3. QED BY <1>1, <2>1, <2>2, AskOK
<1>3. CASE Debounced(r)
  <2>1. Ask(r, query, NoCursor, FALSE, FALSE, request) /\ query' = query
    BY <1>3 DEF Debounced
  <2>2. UNCHANGED <<store, composing, page>> /\ wanted' \in Nat /\ changes' \in Nat
        /\ inputs' \in Nat /\ faults' \in Nat
    BY <1>1, <1>3 DEF Debounced, counts
  <2>3. QED BY <1>1, <2>1, <2>2, AskOK
<1>4. CASE More(r)
  <2>1. Ask(r, query, cursor, TRUE, FALSE, request) /\ query' = query /\ cursor # NoCursor
    BY <1>4 DEF More
  <2>2. UNCHANGED <<store, composing, page>> /\ wanted' \in Nat /\ changes' \in Nat
        /\ inputs' \in Nat /\ faults' \in Nat
    BY <1>1, <1>4 DEF More
  <2>3. QED BY <1>1, <2>1, <2>2, AskOK
<1>5. CASE Retry(r)
  <2>1. Ask(r, query, retry, retry # NoCursor, FALSE, request) /\ query' = query
    BY <1>5 DEF Retry
  <2>2. UNCHANGED <<store, composing, page>> /\ wanted' \in Nat /\ changes' \in Nat
        /\ inputs' \in Nat /\ faults' \in Nat
    BY <1>1, <1>5 DEF Retry
  <2>3. QED BY <1>1, <2>1, <2>2, AskOK
<1>6. CASE ChangeConditions(q, r)
  <2>1. UNCHANGED <<store, composing, page>> /\ wanted' \in Nat /\ changes' \in Nat
        /\ inputs' \in Nat /\ faults' \in Nat /\ query' = q
    BY <1>1, <1>6 DEF ChangeConditions
  <2>2. CASE Ask(r, q, NoCursor, FALSE, FALSE, request)
    BY <1>1, <2>1, <2>2, AskOK
  <2>3. CASE composing /\ newest' = NoRequest /\ UNCHANGED <<request, timer, busy, retry>>
    <3>1. ShownFits'
      BY <2>1, <2>3 DEF ShownFits
    <3>2. PageTypes'
      BY <2>1, <2>3 DEF Types, PageTypes, page
    <3>3. QED BY <2>1, <2>3, <3>1, <3>2, InvalidateFrame
  <2>4. QED BY <1>6, <2>2, <2>3 DEF ChangeConditions
<1>7. QED BY <1>2, <1>3, <1>4, <1>5, <1>6

\* A fetch is over and forgotten.
LEMMA DroppedOK ==
    ASSUME FetchTypes, FetchesOK, NEW r \in Requests
    PROVE  /\ Dropped(r) \in [Requests -> Fetches \cup {Idle}]
           /\ \A s \in Requests : Dropped(r)[s] # Idle => FetchOK(Dropped(r)[s])
           /\ \A s \in Requests : s # r => Dropped(r)[s] = request[s]
BY DEF Dropped, FetchTypes, FetchesOK

LEMMA DroppedFrame ==
    ASSUME FetchTypes, FetchesOK, NEW r \in Requests, request' = Dropped(r), UNCHANGED store
    PROVE  FetchTypes' /\ FetchesOK'
<1>1. FetchTypes'
  BY DroppedOK DEF FetchTypes
<1>2. FetchesOK'
  BY DroppedOK DEF FetchesOK, FetchOK, Clean, store
<1>3. QED BY <1>1, <1>2

LEMMA IgnoreStep ==
    ASSUME PagesInv, NEW r \in Requests, Ignore(r)
    PROVE  PagesInv'
<1> USE DEF PagesInv
<1>1. FetchTypes' /\ FetchesOK'
  BY DroppedFrame DEF Ignore, Types
<1>2. Types'
  BY <1>1 DEF Ignore, Types, StoreTypes, PageTypes, store, form, page, counts
<1>3. PageClean' /\ ShownFits'
  BY DEF Ignore, PageClean, Clean, ShownFits, store, form, page
<1>4. NewestOK'
  <2> SUFFICES ASSUME newest # NoRequest PROVE NewestOK'
    BY DEF NewestOK, Ignore
  <2>1. newest \in Requests /\ newest # r
    BY DEF Types, PageTypes, Ignore, Latest
  <2>2. request'[newest] = request[newest]
    BY <2>1, DroppedOK DEF Ignore, Types
  <2>3. QED BY <2>2 DEF NewestOK, Ignore, form
<1>5. QED BY <1>1, <1>2, <1>3, <1>4

LEMMA StartAgainStep ==
    ASSUME PagesInv, NEW r \in Requests, StartAgain(r)
    PROVE  PagesInv'
<1> USE DEF PagesInv
<1>1. Ask(r, query, NoCursor, FALSE, TRUE, Dropped(r)) /\ query' = query /\ query \in Conditions
  BY DEF StartAgain, Types, PageTypes
<1>2. /\ Dropped(r) \in [Requests -> Fetches \cup {Idle}]
      /\ \A s \in Requests : Dropped(r)[s] # Idle => FetchOK(Dropped(r)[s])
  BY DroppedOK DEF Types
<1>3. UNCHANGED <<store, composing, page>> /\ wanted' \in Nat /\ changes' \in Nat
      /\ inputs' \in Nat /\ faults' \in Nat
  BY DEF StartAgain, Types, PageTypes, counts
<1>4. PICK table : table = Dropped(r)
  OBVIOUS
<1>5. Ask(r, query, NoCursor, FALSE, TRUE, table)
  BY <1>1, <1>4 DEF Ask
<1>6. QED BY <1>1, <1>2, <1>3, <1>4, <1>5, AskOK

LEMMA ShowErrorStep ==
    ASSUME PagesInv, NEW r \in Requests, ShowError(r)
    PROVE  PagesInv'
<1> USE DEF PagesInv
<1>1. FetchTypes' /\ FetchesOK'
  BY DroppedFrame DEF ShowError, Types
<1>2. Types'
  BY <1>1 DEF ShowError, Over, Types, StoreTypes, PageTypes, store, form, counts
<1>3. PageClean' /\ ShownFits' /\ NewestOK'
  BY DEF ShowError, Over, PageClean, Clean, ShownFits, NewestOK, store, form
<1>4. QED BY <1>1, <1>2, <1>3

\* The answer on screen is that of the latest fetch, and what the page notes with
\* it is what that fetch relied on.
LEMMA RenderStep ==
    ASSUME PagesInv, NEW r \in Requests, Render(r)
    PROVE  PagesInv'
<1> USE DEF PagesInv
<1>1. PICK f : f = request[r]
  OBVIOUS
<1>2. f \in Fetches /\ f # Idle /\ FetchOK(f) /\ newest = r /\ newest # NoRequest
  BY <1>1, FetchIsIdle, NoneAssumption DEF Render, Latest, Types, FetchTypes, FetchesOK, Idle
<1>3. /\ f.query = query /\ f.query \in Conditions
      /\ retry = IF f.append THEN f.cursor ELSE NoCursor
      /\ f.next \in Cursors \cup {NoCursor} /\ f.drift \in SUBSET Docs /\ f.items \in Seq(Docs)
      /\ f.append \in BOOLEAN /\ f.generation \in Nat
  BY <1>1, <1>2 DEF NewestOK, Fetches
<1>4. /\ cursor' = f.next /\ screen' = "results" /\ buttons' \in SUBSET {"more", "retry"}
      /\ shownFor' = f.query /\ drift' = f.drift
      /\ UNCHANGED <<store, form, counts>>
  BY <1>1 DEF Render, ButtonsAfter, Types, PageTypes
<1>5. shown' \in Seq(Docs)
  <2>1. Appended(r) \in Seq(Docs)
    BY <1>1, <1>3 DEF Appended, Types, PageTypes
  <2>2. QED BY <2>1 DEF Render
<1>6. Clean(f.next, f.drift)
  BY <1>2, <1>3 DEF FetchOK, Clean
<1>7. Clean(retry, f.drift)
  BY <1>2, <1>3 DEF FetchOK, Clean
<1>8. ShownFits'
  BY <1>3, <1>4 DEF ShownFits, form
<1>9. CASE Restoring(r)
  <2>1. f.next # NoCursor
    BY <1>1, <1>9 DEF Restoring
  <2>2. PICK b : b = Begin(r, query, f.next, TRUE, FALSE)
    OBVIOUS
  <2>3. PICK g : g = [b EXCEPT !.drift = f.drift]
    OBVIOUS
  <2>4. request' = [request EXCEPT ![r] = g] /\ newest' = r /\ retry' = f.next
        /\ UNCHANGED <<busy, wanted>>
    BY <1>1, <1>9, <2>2, <2>3 DEF Render
  <2>5. /\ b.query = query /\ b.cursor = f.next /\ b.append = TRUE /\ b.pc = "check"
        /\ b.generation = 0 /\ b.items = <<>> /\ b.next = NoCursor /\ b.late = FALSE
        /\ b.gone = {d \in Docs : core[d] = 0}
    BY <2>2 DEF Begin
  <2>6. b \in Fetches
    <3>1. PICK D, G : D = drift /\ G = {d \in Docs : core[d] = 0}
      OBVIOUS
    <3>2. D \in SUBSET Docs /\ G \in SUBSET Docs /\ <<>> \in Seq(Docs)
      BY <3>1 DEF Types, PageTypes
    <3>3. b = [pc |-> "check", query |-> query, cursor |-> f.next, append |-> TRUE, again |-> FALSE,
               generation |-> 0, total |-> 0, list |-> <<>>, items |-> <<>>, next |-> NoCursor,
               kind |-> "ok", drift |-> D, gone |-> G, late |-> FALSE]
      BY <2>2, <3>1 DEF Begin
    <3>4. QED BY <1>3, <3>2, <3>3 DEF Fetches
  <2>7. g \in Fetches
    BY <1>3, <2>3, <2>6 DEF Fetches
  <2>8. /\ g.query = query /\ g.cursor = f.next /\ g.append = TRUE /\ g.pc = "check"
        /\ g.generation = 0 /\ g.items = <<>> /\ g.next = NoCursor /\ g.late = FALSE
        /\ g.gone = {d \in Docs : core[d] = 0} /\ g.drift = f.drift
    BY <2>3, <2>5, <2>6 DEF Fetches
  <2>9. ToSet(g.items) = {}
    BY <2>8 DEF ToSet
  <2>10. FetchOK(g)
    BY <1>6, <2>1, <2>8, <2>9 DEF FetchOK, Types, StoreTypes
  <2>11. g # Idle
    BY <2>8 DEF Idle
  <2>12. FetchTypes'
    BY <2>4, <2>7 DEF Types, FetchTypes
  <2>13. FetchesOK'
    <3> SUFFICES ASSUME NEW s \in Requests, request'[s] # Idle PROVE FetchOK(request[s])'
      BY DEF FetchesOK
    <3>1. PICK h : h = request'[s]
      OBVIOUS
    <3>2. FetchOK(h)
      BY <2>4, <2>10, <3>1 DEF Types, FetchTypes, FetchesOK
    <3>3. FetchOK(h)'
      BY <1>4, <3>2, FetchOKFrame DEF store
    <3>4. QED BY <3>1, <3>3 DEF FetchOK, Clean
  <2>14. Types'
    BY <1>3, <1>4, <1>5, <2>4, <2>12
       DEF Types, StoreTypes, PageTypes, store, form, counts
  <2>15. PageClean'
    BY <1>4, <1>6, <2>4 DEF PageClean, Clean, store
  <2>16. NewestOK'
    <3>1. request'[r] = g
      BY <2>4 DEF Types, FetchTypes
    <3>2. QED BY <1>4, <2>4, <2>8, <2>11, <3>1 DEF NewestOK, form
  <2>17. QED BY <1>8, <2>13, <2>14, <2>15, <2>16
<1>10. CASE ~Restoring(r)
  <2>1. request' = Dropped(r) /\ newest' = NoRequest /\ busy' = FALSE /\ wanted' = 0 /\ retry' = retry
    BY <1>10 DEF Render, Over
  <2>2. FetchTypes' /\ FetchesOK'
    BY <1>4, <2>1, DroppedFrame DEF Types
  <2>3. Types'
    BY <1>3, <1>4, <1>5, <2>1, <2>2 DEF Types, StoreTypes, PageTypes, store, form, counts
  <2>4. PageClean'
    BY <1>4, <1>6, <1>7, <2>1 DEF PageClean, Clean, store
  <2>5. QED BY <1>8, <2>1, <2>2, <2>3, <2>4 DEF NewestOK
<1>11. QED BY <1>9, <1>10

-----------------------------------------------------------------------------
(* The theorems.                                                             *)

LEMMA PagesInit == Init => PagesInv
<1> SUFFICES ASSUME Init PROVE PagesInv
  OBVIOUS
<1>1. Cardinality(Docs) \in Nat
  BY DocsAssumption, FS_CardinalityType
<1>2. FetchTypes /\ FetchesOK
  BY DEF Init, FetchTypes, FetchesOK
<1>3. StoreTypes
  <2>1. core \in [Docs -> Ranks] /\ projected = core /\ ready = TRUE /\ loading = FALSE
    BY DEF Init
  <2>2. generation \in Nat \ {0} /\ dirty \in SUBSET Docs /\ removed \in SUBSET Seeds
    BY DEF Init
  <2>3. QED BY <2>1, <2>2 DEF StoreTypes
<1>4. wanted \in Nat /\ shown \in Seq(Docs)
  BY <1>1 DEF Init
<1>5. PageTypes
  BY <1>4 DEF Init, PageTypes
<1>6. PageClean /\ NewestOK /\ ShownFits
  BY DEF Init, PageClean, Clean, NewestOK, ShownFits
<1>7. QED BY <1>2, <1>3, <1>5, <1>6 DEF PagesInv, Types

LEMMA PagesStep == PagesInv /\ [Next]_vars => PagesInv'
<1> SUFFICES ASSUME PagesInv, [Next]_vars PROVE PagesInv'
  OBVIOUS
<1>1. CASE UNCHANGED vars
  BY <1>1, StoreFrame DEF PagesInv, Types, StoreTypes, PageTypes, vars, form, page
<1>2. CASE \E d \in Docs : DrainDocument(d) \/ \E rank \in Ranks : ChangeDocument(d, rank)
  BY <1>2, ProjectionStep, ChangeDocumentStep
<1>3. CASE \/ RemoveSamples \/ EndRebuild
          \/ \E rank \in [Docs \ Seeds -> Ranks] : EndLoad(rank) \/ LoadAtOnce(rank)
  BY <1>3, RemoveSamplesStep, ProjectionStep, LoadStep
<1>4. CASE StartComposing
  BY <1>4, InputStep DEF PagesInv, Types, PageTypes
<1>5. CASE \E q \in Conditions : \/ Type(q) \/ EndComposing(q)
                                 \/ \E r \in Requests : ChangeConditions(q, r)
  BY <1>5, InputStep, SearchStep
<1>6. ASSUME NEW r \in Requests,
             ServerStep(r) \/ Fail(r) \/ Ignore(r) \/ Receive(r)
             \/ Open(r) \/ Debounced(r) \/ More(r) \/ Retry(r)
      PROVE  PagesInv'
  <2>1. CASE ServerStep(r)
    BY <2>1, CheckStep, FromCoreStep, CountNamedStep, ReadNamedStep, CountStep, RankStep,
       ReadCoreStep DEF ServerStep
  <2>2. CASE Fail(r) \/ Ignore(r)
    BY <2>2, FailStep, IgnoreStep
  <2>3. CASE Receive(r)
    BY <2>3, StartAgainStep, ShowErrorStep, RenderStep DEF Receive
  <2>4. CASE Open(r) \/ Debounced(r) \/ More(r) \/ Retry(r)
    BY <2>4, SearchStep DEF PagesInv, Types, PageTypes
  <2>5. QED BY <1>6, <2>1, <2>2, <2>3, <2>4
<1>7. QED BY <1>1, <1>2, <1>3, <1>4, <1>5, <1>6 DEF Next

\* What the numbers of the page stand for holds in every state: a cursor of the
\* present generation comes from a list since which nothing has changed, except that
\* the first chunk of a scheduled load may have removed the samples, and the latest
\* fetch asks for the conditions in the form.
THEOREM PagesCorrect == Spec => []PagesInv
BY PagesInit, PagesStep, PTL DEF Spec

\* When the page rests with results on screen and no alert under them, they are
\* those of the conditions in the form, with any number of searches under way and
\* answers that come in any order: only the latest fetch is rendered, and whatever
\* changes the form makes every fetch obsolete in the same step.
THEOREM ShownCorrect == Spec => []ShownFits
<1>1. PagesInv => ShownFits
  BY DEF PagesInv
<1>2. QED BY <1>1, PagesCorrect, PTL

\* No answer lists a document that has not met the conditions at any time since
\* the search was begun: what the projection still lists is read again from the
\* core tables, and the lists the core tables give are of one moment.
THEOREM AnswersCorrect == Spec => []AnswersAreCurrent
<1>1. PagesInv => AnswersAreCurrent
  <2> SUFFICES ASSUME PagesInv, NEW r \in Requests, request[r].pc = "answered"
               PROVE  ToSet(request[r].items) \cap request[r].gone = {}
    BY DEF AnswersAreCurrent
  <2>1. request[r] # Idle
    BY DEF Idle
  <2>2. QED BY <2>1 DEF PagesInv, FetchesOK, FetchOK
<1>2. QED BY <1>1, PagesCorrect, PTL

\* A page is appended only to a list of the same generation, so that nothing but the
\* samples can have changed between them: the equality of two numbers stands for
\* every transaction there has been, because each raises the number, except the first
\* chunk of a scheduled load, which only removes the samples.
THEOREM PagesOfOneLedgerCorrect == Spec => []PagesOfOneLedger
<1>1. PagesInv => PagesOfOneLedger
  <2> SUFFICES ASSUME PagesInv, NEW r \in Requests, request[r].pc # "idle"
               PROVE  ~request[r].late
    BY DEF PagesOfOneLedger
  <2>1. request[r] # Idle
    BY DEF Idle
  <2>2. QED BY <2>1 DEF PagesInv, FetchesOK, FetchOK
<1>2. QED BY <1>1, PagesCorrect, PTL
=============================================================================
