-------------------------- MODULE RaftFragmentProofs --------------------------
(***************************************************************************)
(* Lemmas about fragments alone, for RaftLogSections: what is cut from a   *)
(* log, joined to a log or appended to it agrees with whatever the parts   *)
(* agree with.                                                             *)
(***************************************************************************)
EXTENDS RaftLogInv, RaftTypeProofs

LEMMA LogFragment ==
    ASSUME NEW log \in Log
    PROVE  LET F == logFragment(log)
           IN  /\ F \in Fragment /\ F.prev = 0 /\ F.prevTerm = 0 /\ F.entries = log
               /\ Len(log) \in Nat /\ Indices(F) = 1 .. Len(log)
               /\ \A q \in 1 .. Len(log) : At(F, q) = log[q] /\ log[q] \in Entry /\ log[q].term \in Nat
               /\ \A p \in Nat : TermAt(F, p) = IF p = 0 THEN 0 ELSE log[p].term
<1>1. Len(log) \in Nat /\ \A q \in 1 .. Len(log) : log[q] \in Entry
  BY LenProperties, ElementOfSeq DEF Log
<1>2. \A q \in 1 .. Len(log) : log[q].term \in Nat
  BY <1>1 DEF Entry
<1> QED
  BY <1>1, <1>2 DEF logFragment, Fragment, Indices, At, TermAt

LEMMA AgreeSelf ==
    ASSUME NEW F \in Fragment
    PROVE  Agree(F, F)
BY DEF Agree

LEMMA AgreeSymmetric ==
    ASSUME NEW F \in Fragment, NEW G \in Fragment, Agree(F, G)
    PROVE  Agree(G, F)
<1>1. /\ F.prev \in Nat /\ G.prev \in Nat
      /\ Len(F.entries) \in Nat /\ Len(G.entries) \in Nat
  BY LenProperties DEF Fragment, Log
<1> SUFFICES ASSUME NEW q \in Indices(G) \cap Indices(F), At(G, q).term = At(F, q).term
             PROVE  /\ At(G, q) = At(F, q)
                    /\ \A p \in G.prev .. q - 1 : p >= F.prev => TermAt(G, p) = TermAt(F, p)
  BY DEF Agree
<1>2. /\ At(F, q) = At(G, q)
      /\ \A p \in F.prev .. q - 1 : p >= G.prev => TermAt(F, p) = TermAt(G, p)
  BY DEF Agree
<1>3. q \in Nat
  BY <1>1 DEF Indices
<1> QED
  BY <1>1, <1>2, <1>3

\* C tells nothing that F does not tell.
PartOf(C, F) ==
    /\ C.prev >= F.prev
    /\ \A q \in Indices(C) :
           /\ q \in Indices(F) /\ At(C, q) = At(F, q)
           /\ \A p \in C.prev .. q - 1 : TermAt(C, p) = TermAt(F, p)

LEMMA PartAgrees ==
    ASSUME NEW C \in Fragment, NEW F \in Fragment, NEW G \in Fragment,
           PartOf(C, F), Agree(F, G)
    PROVE  Agree(C, G)
<1>1. C.prev \in Nat /\ F.prev \in Nat /\ G.prev \in Nat /\ Len(C.entries) \in Nat
  BY LenProperties DEF Fragment, Log
<1> SUFFICES ASSUME NEW q \in Indices(C) \cap Indices(G), At(C, q).term = At(G, q).term
             PROVE  /\ At(C, q) = At(G, q)
                    /\ \A p \in C.prev .. q - 1 : p >= G.prev => TermAt(C, p) = TermAt(G, p)
  BY DEF Agree
<1>2. q \in Nat
  BY <1>1 DEF Indices
<1>3. /\ q \in Indices(F) /\ At(C, q) = At(F, q)
      /\ \A p \in C.prev .. q - 1 : TermAt(C, p) = TermAt(F, p)
  BY DEF PartOf
<1>4. /\ At(F, q) = At(G, q)
      /\ \A p \in F.prev .. q - 1 : p >= G.prev => TermAt(F, p) = TermAt(G, p)
  BY <1>3 DEF Agree
<1>5. \A p \in C.prev .. q - 1 : p \in F.prev .. q - 1
  BY <1>1, <1>2 DEF PartOf
<1> QED
  BY <1>3, <1>4, <1>5

\* The entries of a log from an index on, as broadcastHeartbeat sends them.
LEMMA Cut ==
    ASSUME NEW log \in Log, NEW n \in Nat, n >= 1
    PROVE  LET C == [prev |-> n - 1, prevTerm |-> logTerm(log, n - 1),
                     entries |-> SubSeq(log, n, Len(log))]
           IN  /\ C \in Fragment /\ PartOf(C, logFragment(log))
               /\ C.prev = 0 => C.prevTerm = 0
<1> DEFINE E == SubSeq(log, n, Len(log))
           C == [prev |-> n - 1, prevTerm |-> logTerm(log, n - 1), entries |-> E]
           F == logFragment(log)
<1>1. /\ F \in Fragment /\ F.prev = 0 /\ Len(log) \in Nat /\ Indices(F) = 1 .. Len(log)
      /\ \A q \in 1 .. Len(log) : At(F, q) = log[q]
      /\ \A p \in Nat : TermAt(F, p) = IF p = 0 THEN 0 ELSE log[p].term
  BY LogFragment
<1>2. log \in Seq(Entry)
  BY DEF Log
<1>3. /\ E \in Seq(Entry)
      /\ Len(E) = IF n <= Len(log) THEN Len(log) - n + 1 ELSE 0
      /\ \A k \in 1 .. Len(E) : E[k] = log[n + k - 1]
  BY <1>1, <1>2, SubSeqProperties
<1>4. logTerm(log, n - 1) \in Nat /\ n - 1 \in Nat /\ n - 1 \in Int
  BY LogTermType
<1>5. C \in Fragment
  BY <1>3, <1>4 DEF Fragment, Log
<1>6. C.prev = n - 1 /\ C.prevTerm = logTerm(log, n - 1) /\ C.entries = E
  OBVIOUS
<1> HIDE DEF C, E, F
<1>7. PartOf(C, F)
  <2>1. C.prev >= F.prev
    BY <1>1, <1>4, <1>6
  <2> SUFFICES ASSUME NEW q \in Indices(C)
               PROVE  /\ q \in Indices(F) /\ At(C, q) = At(F, q)
                      /\ \A p \in C.prev .. q - 1 : TermAt(C, p) = TermAt(F, p)
    BY <2>1 DEF PartOf
  <2>2. q \in Nat /\ q >= n /\ q <= Len(log) /\ q - (n - 1) \in 1 .. Len(E)
    BY <1>1, <1>3, <1>4, <1>6 DEF Indices
  <2>3. \A x \in n .. Len(log) : At(C, x) = log[x]
    <3> SUFFICES ASSUME NEW x \in n .. Len(log) PROVE At(C, x) = log[x]
      OBVIOUS
    <3>1. x - (n - 1) \in 1 .. Len(E) /\ n + (x - (n - 1)) - 1 = x
      BY <1>1, <1>3, <1>4
    <3> QED BY <1>3, <1>6, <3>1 DEF At
  <2>4. q \in Indices(F) /\ At(C, q) = At(F, q)
    BY <1>1, <2>2, <2>3
  <2>5. ASSUME NEW p \in C.prev .. q - 1 PROVE TermAt(C, p) = TermAt(F, p)
    <3>1. p \in Nat /\ p >= n - 1 /\ p < q
      BY <1>4, <1>6, <2>2
    <3>2. CASE p = n - 1
      BY <1>1, <1>6, <2>2, <3>1, <3>2 DEF TermAt, logTerm
    <3>3. CASE p # n - 1
      <4>1. p \in n .. Len(log) /\ p # 0 /\ p # C.prev
        BY <1>1, <1>6, <2>2, <3>1, <3>3
      <4> QED BY <1>1, <2>3, <3>1, <4>1 DEF TermAt
    <3> QED BY <3>2, <3>3
  <2> QED BY <2>4, <2>5
<1>8. C.prev = 0 => C.prevTerm = 0
  BY <1>1, <1>6 DEF logTerm
<1> QED
  BY <1>5, <1>7, <1>8 DEF C, E, F
\* A new entry of a term that nobody has at or after its index.
LEMMA AppendAgrees ==
    ASSUME NEW log \in Log, NEW e \in Entry, NEW G \in Fragment, Agree(logFragment(log), G),
           \A q \in Indices(G) : At(G, q).term = e.term => q <= Len(log)
    PROVE  Agree(logFragment(Append(log, e)), G)
<1> DEFINE new == Append(log, e)
           F == logFragment(log)
           N == logFragment(new)
<1>1. /\ new \in Log /\ Len(new) = Len(log) + 1
      /\ new[Len(log) + 1] = e /\ \A q \in 1 .. Len(log) : new[q] = log[q]
  BY AppendProperties DEF Log
<1> HIDE DEF new
<1>2. /\ F.prev = 0 /\ Len(log) \in Nat /\ Indices(F) = 1 .. Len(log)
      /\ \A q \in 1 .. Len(log) : At(F, q) = log[q]
      /\ \A p \in Nat : TermAt(F, p) = IF p = 0 THEN 0 ELSE log[p].term
  BY LogFragment
<1>3. /\ N.prev = 0 /\ Indices(N) = 1 .. Len(new)
      /\ \A q \in 1 .. Len(new) : At(N, q) = new[q]
      /\ \A p \in Nat : TermAt(N, p) = IF p = 0 THEN 0 ELSE new[p].term
  BY <1>1, LogFragment
<1> HIDE DEF F, N
<1>4. Agree(F, G)
  BY DEF F
<1> SUFFICES ASSUME NEW q \in Indices(N) \cap Indices(G), At(N, q).term = At(G, q).term
             PROVE  /\ At(N, q) = At(G, q)
                    /\ \A p \in N.prev .. q - 1 : p >= G.prev => TermAt(N, p) = TermAt(G, p)
  BY DEF Agree, N, new
<1>5. q \in 1 .. Len(log)
  BY <1>1, <1>2, <1>3
<1>6. q \in Indices(F) \cap Indices(G) /\ At(N, q) = At(F, q)
  BY <1>1, <1>2, <1>3, <1>5
<1>7. /\ At(F, q) = At(G, q)
      /\ \A p \in F.prev .. q - 1 : p >= G.prev => TermAt(F, p) = TermAt(G, p)
  BY <1>4, <1>6 DEF Agree
<1>8. \A p \in 0 .. q - 1 : TermAt(N, p) = TermAt(F, p)
  BY <1>1, <1>2, <1>3, <1>5
<1> QED
  BY <1>2, <1>3, <1>6, <1>7, <1>8

\* What the loop over msg.Entries leaves behind: the old log, or the old log up to
\* some index and the new entries after it, equal in terms where the two overlap.
LEMMA MergeShape ==
    ASSUME NEW log \in Log, NEW entries \in Log, NEW n \in Nat, n <= Len(log)
    PROVE  LET new == mergeEntries(log, n, entries)
           IN  /\ new \in Log
               /\ \/ new = log
                  \/ \E k \in 1 .. Len(entries) :
                         /\ n + k - 1 <= Len(log) /\ Len(new) = n + Len(entries)
                         /\ \A j \in 1 .. k - 1 : log[n + j].term = entries[j].term
                         /\ \A q \in 1 .. n + k - 1 : new[q] = log[q]
                         /\ \A q \in n + k .. n + Len(entries) : new[q] = entries[q - n]
<1> DEFINE M == missing(log, n, entries)
           k == Min(M)
           new == mergeEntries(log, n, entries)
<1>1. log \in Seq(Entry) /\ entries \in Seq(Entry) /\ Len(log) \in Nat /\ Len(entries) \in Nat
  BY LenProperties DEF Log
<1>2. new \in Log
  BY MergeEntriesType
<1>3. CASE M = {}
  BY <1>2, <1>3 DEF mergeEntries
<1>4. CASE M # {}
  <2>1. M \in SUBSET Nat /\ M \subseteq 1 .. Len(entries)
    BY <1>1 DEF missing
  <2>2. k \in M /\ \A y \in M : k <= y
    BY <1>4, <2>1, MinNat
  <2>3. new = SubSeq(log, 1, n + k - 1) \o SubSeq(entries, k, Len(entries))
    BY <1>4 DEF mergeEntries
  <2>4. k \in 1 .. Len(entries)
    BY <2>1, <2>2
  <2>5. \A j \in 1 .. k - 1 : n + j <= Len(log) /\ log[n + j].term = entries[j].term
    <3> SUFFICES ASSUME NEW j \in 1 .. k - 1
                 PROVE  n + j <= Len(log) /\ log[n + j].term = entries[j].term
      OBVIOUS
    <3>1. j \in 1 .. Len(entries) /\ j \notin M
      BY <1>1, <2>2, <2>4
    <3>2. n + j <= Len(log) /\ logTerm(log, n + j) = entries[j].term
      BY <1>1, <3>1 DEF missing, lastLogIndex
    <3> QED BY <1>1, <3>1, <3>2 DEF logTerm
  <2> HIDE DEF k, M, new
  <2>6. n + k - 1 <= Len(log) /\ n + k - 1 \in Nat
    <3>1. CASE k = 1
      BY <1>1, <3>1
    <3>2. CASE k # 1
      <4>1. k - 1 \in 1 .. k - 1
        BY <1>1, <2>4, <3>2
      <4>2. n + (k - 1) <= Len(log)
        BY <2>5, <4>1
      <4> QED BY <1>1, <2>4, <4>2
    <3> QED BY <3>1, <3>2
  <2> DEFINE A == SubSeq(log, 1, n + k - 1)
             B == SubSeq(entries, k, Len(entries))
  <2>7. A \in Seq(Entry) /\ Len(A) = n + k - 1 /\ \A q \in 1 .. n + k - 1 : A[q] = log[q]
    <3>1. 1 <= (n + k - 1) + 1 /\ n + k - 1 \in 1 - 1 .. Len(log)
      BY <1>1, <2>4, <2>6
    <3> QED BY <1>1, <2>6, <3>1, SubSeqProperties
  <2>8. B \in Seq(Entry) /\ Len(B) = Len(entries) - k + 1
        /\ \A q \in 1 .. Len(B) : B[q] = entries[k + q - 1]
    BY <1>1, <2>4, SubSeqProperties
  <2>9. new = A \o B
    BY <2>3
  <2> HIDE DEF A, B
  <2>10. /\ Len(new) = Len(A) + Len(B)
         /\ \A q \in 1 .. Len(A) + Len(B) : new[q] = IF q <= Len(A) THEN A[q] ELSE B[q - Len(A)]
    BY <2>7, <2>8, <2>9, ConcatProperties
  <2>11. Len(new) = n + Len(entries)
    BY <1>1, <2>4, <2>7, <2>8, <2>10
  <2>12. ASSUME NEW q \in 1 .. n + k - 1 PROVE new[q] = log[q]
    <3>1. q \in 1 .. Len(A) + Len(B) /\ q <= Len(A)
      BY <1>1, <2>4, <2>7, <2>8
    <3> QED BY <2>7, <2>10, <3>1
  <2>13. ASSUME NEW q \in n + k .. n + Len(entries) PROVE new[q] = entries[q - n]
    <3>1. q \in 1 .. Len(A) + Len(B) /\ ~(q <= Len(A)) /\ q - Len(A) \in 1 .. Len(B)
          /\ k + (q - Len(A)) - 1 = q - n
      BY <1>1, <2>4, <2>7, <2>8
    <3> QED BY <2>8, <2>10, <3>1
  <2> QED BY <1>2, <2>4, <2>5, <2>6, <2>11, <2>12, <2>13 DEF new
<1> QED
  BY <1>3, <1>4
\* The joined log agrees with whatever the log and the message agree with, and all its
\* entries are of one of the two.
LEMMA MergeAgrees ==
    ASSUME NEW log \in Log, NEW M \in Fragment, M.prev <= Len(log),
           M.prev = 0 => M.prevTerm = 0, M.prev > 0 => log[M.prev].term = M.prevTerm,
           Agree(logFragment(log), M)
    PROVE  LET F == logFragment(log)
               N == logFragment(mergeEntries(log, M.prev, M.entries))
           IN  /\ N \in Fragment
               /\ \A G \in Fragment : Agree(F, G) /\ Agree(M, G) => Agree(N, G)
               /\ \A q \in Indices(N) : \/ q \in Indices(F) /\ At(N, q) = At(F, q)
                                        \/ q \in Indices(M) /\ At(N, q) = At(M, q)
<1> DEFINE n == M.prev
           E == M.entries
           F == logFragment(log)
           new == mergeEntries(log, n, E)
           N == logFragment(new)
<1>1. n \in Nat /\ E \in Log /\ Len(E) \in Nat /\ Len(log) \in Nat
  BY LenProperties DEF Fragment, Log
<1>2. /\ new \in Log
      /\ \/ new = log
         \/ \E k \in 1 .. Len(E) :
                /\ n + k - 1 <= Len(log) /\ Len(new) = n + Len(E)
                /\ \A j \in 1 .. k - 1 : log[n + j].term = E[j].term
                /\ \A q \in 1 .. n + k - 1 : new[q] = log[q]
                /\ \A q \in n + k .. n + Len(E) : new[q] = E[q - n]
  BY <1>1, MergeShape
<1> HIDE DEF n, E, new
<1>3. /\ F \in Fragment /\ F.prev = 0 /\ Indices(F) = 1 .. Len(log)
      /\ \A q \in 1 .. Len(log) : At(F, q) = log[q]
      /\ \A p \in Nat : TermAt(F, p) = IF p = 0 THEN 0 ELSE log[p].term
  BY LogFragment
<1>4. /\ N \in Fragment /\ N.prev = 0 /\ Len(new) \in Nat /\ Indices(N) = 1 .. Len(new)
      /\ \A q \in 1 .. Len(new) : At(N, q) = new[q]
      /\ \A p \in Nat : TermAt(N, p) = IF p = 0 THEN 0 ELSE new[p].term
  BY <1>2, LogFragment
<1>5. Indices(M) = n + 1 .. n + Len(E) /\ (\A q : At(M, q) = E[q - n])
      /\ \A p : TermAt(M, p) = IF p = n THEN M.prevTerm ELSE E[p - n].term
  BY DEF Indices, At, TermAt, n, E
<1>6. Agree(F, M) /\ n <= Len(log) /\ (n = 0 => M.prevTerm = 0) /\ (n > 0 => log[n].term = M.prevTerm)
  BY DEF n
<1>7. CASE new = log
  <2>1. N = F
    BY <1>7
  <2> QED BY <1>3, <2>1 DEF n, E, new
<1>8. ASSUME NEW k \in 1 .. Len(E),
             n + k - 1 <= Len(log), Len(new) = n + Len(E),
             \A j \in 1 .. k - 1 : log[n + j].term = E[j].term,
             \A q \in 1 .. n + k - 1 : new[q] = log[q],
             \A q \in n + k .. n + Len(E) : new[q] = E[q - n]
      PROVE  /\ N \in Fragment
             /\ \A G \in Fragment : Agree(F, G) /\ Agree(M, G) => Agree(N, G)
             /\ \A q \in Indices(N) : \/ q \in Indices(F) /\ At(N, q) = At(F, q)
                                      \/ q \in Indices(M) /\ At(N, q) = At(M, q)
  <2> HIDE DEF F, N
  <2>1. ASSUME NEW q \in 1 .. n + k - 1 PROVE q \in Indices(F) /\ At(N, q) = At(F, q)
    <3>1. q \in 1 .. Len(log) /\ q \in 1 .. Len(new)
      BY <1>1, <1>8
    <3> QED BY <1>3, <1>4, <1>8, <3>1
  <2>2. ASSUME NEW q \in n + k .. n + Len(E) PROVE q \in Indices(M) /\ At(N, q) = At(M, q)
    <3>1. q \in n + 1 .. n + Len(E) /\ q \in 1 .. Len(new)
      BY <1>1, <1>8
    <3> QED BY <1>4, <1>5, <1>8, <3>1
  <2>3. ASSUME NEW p \in 0 .. n + k - 1 PROVE TermAt(N, p) = TermAt(F, p)
    <3>1. p \in Nat /\ (p # 0 => p \in 1 .. n + k - 1)
      BY <1>1
    <3> QED BY <1>3, <1>4, <1>8, <3>1
  <2>4. \A p \in n .. n + Len(E) : TermAt(N, p) = TermAt(M, p)
    <3> SUFFICES ASSUME NEW p \in n .. n + Len(E) PROVE TermAt(N, p) = TermAt(M, p)
      OBVIOUS
    <3>1. CASE p = n
      BY <1>1, <1>4, <1>5, <1>6, <1>8, <3>1
    <3>2. CASE p # n /\ p < n + k
      <4>1. p - n \in 1 .. k - 1 /\ n + (p - n) = p /\ p \in 1 .. n + k - 1 /\ p # 0 /\ p \in Nat
        BY <1>1, <3>2
      <4> QED BY <1>4, <1>5, <1>8, <3>2, <4>1
    <3>3. CASE p >= n + k
      BY <1>1, <1>4, <1>5, <1>8, <3>3
    <3> QED BY <1>1, <3>1, <3>2, <3>3
  <2>5. ASSUME NEW G \in Fragment, Agree(F, G), Agree(M, G)
        PROVE  Agree(N, G)
    <3>1. G.prev \in Nat /\ Len(G.entries) \in Nat /\ Indices(G) = G.prev + 1 .. G.prev + Len(G.entries)
          /\ \A p : p # G.prev => TermAt(G, p) = At(G, p).term
      BY LenProperties DEF Fragment, Log, Indices, TermAt
    <3> SUFFICES ASSUME NEW q \in Indices(N) \cap Indices(G), At(N, q).term = At(G, q).term
                 PROVE  /\ At(N, q) = At(G, q)
                        /\ \A p \in N.prev .. q - 1 : p >= G.prev => TermAt(N, p) = TermAt(G, p)
      BY DEF Agree
    <3>2. q \in 1 .. n + Len(E)
      BY <1>4, <1>8
    <3>3. CASE q < n + k
      <4>1. q \in Indices(F) \cap Indices(G) /\ At(N, q) = At(F, q)
        BY <1>1, <2>1, <3>2, <3>3
      <4>2. /\ At(F, q) = At(G, q)
            /\ \A p \in F.prev .. q - 1 : p >= G.prev => TermAt(F, p) = TermAt(G, p)
        BY <2>5, <4>1 DEF Agree
      <4>3. \A p \in 0 .. q - 1 : TermAt(N, p) = TermAt(F, p)
        BY <1>1, <2>3, <3>2, <3>3
      <4> QED BY <1>3, <1>4, <4>1, <4>2, <4>3
    <3>4. CASE q >= n + k
      <4>1. q \in Indices(M) \cap Indices(G) /\ At(N, q) = At(M, q)
        BY <1>1, <2>2, <3>2, <3>4
      <4>2. /\ At(M, q) = At(G, q)
            /\ \A p \in n .. q - 1 : p >= G.prev => TermAt(M, p) = TermAt(G, p)
        BY <2>5, <4>1 DEF Agree, n
      <4>3. ASSUME NEW p \in 0 .. q - 1, p >= G.prev PROVE TermAt(N, p) = TermAt(G, p)
        <5>1. CASE p >= n
          <6>1. p \in n .. q - 1 /\ p \in n .. n + Len(E)
            BY <1>1, <3>2, <5>1
          <6> QED BY <2>4, <4>2, <4>3, <6>1
        <5>2. CASE p < n
          \* G covers the seam, and agrees there with the message, hence with the log.
          <6>1. n \in Indices(F) \cap Indices(G) /\ n > 0 /\ n \in n .. q - 1
                /\ n # G.prev /\ n >= G.prev
            BY <1>1, <1>3, <1>6, <3>1, <3>2, <3>4, <4>3, <5>2
          <6>2. At(F, n).term = At(G, n).term
            BY <1>3, <1>5, <1>6, <3>1, <4>2, <6>1
          <6>3. \A x \in F.prev .. n - 1 : x >= G.prev => TermAt(F, x) = TermAt(G, x)
            BY <2>5, <6>1, <6>2 DEF Agree
          <6>4. p \in F.prev .. n - 1 /\ p \in 0 .. n + k - 1
            BY <1>1, <1>3, <3>2, <5>2
          <6> QED BY <2>3, <4>3, <6>3, <6>4
        <5> QED BY <1>1, <3>2, <5>1, <5>2
      <4> QED BY <1>4, <4>1, <4>2, <4>3
    <3> QED BY <1>1, <3>2, <3>3, <3>4
  <2>6. \A q \in Indices(N) : q \in 1 .. n + k - 1 \/ q \in n + k .. n + Len(E)
    BY <1>1, <1>4, <1>8
  <2> QED BY <1>4, <2>1, <2>2, <2>5, <2>6
<1>9. /\ N \in Fragment
      /\ \A G \in Fragment : Agree(F, G) /\ Agree(M, G) => Agree(N, G)
      /\ \A q \in Indices(N) : \/ q \in Indices(F) /\ At(N, q) = At(F, q)
                               \/ q \in Indices(M) /\ At(N, q) = At(M, q)
  <2>1. CASE new = log
    BY <1>3, <2>1
  <2> QED BY <1>2, <1>8, <2>1
<1> QED
  BY <1>9 DEF n, E, new

\* Fragments that agree are logs that match.
LEMMA AgreementMatches ==
    ASSUME TypeOK, LogInv
    PROVE  LogMatching
<1> SUFFICES ASSUME NEW i \in Node, NEW j \in Node,
                    NEW k \in DOMAIN raft[i].log \cap DOMAIN raft[j].log,
                    raft[i].log[k].term = raft[j].log[k].term
             PROVE  SubSeq(raft[i].log, 1, k) = SubSeq(raft[j].log, 1, k)
  BY DEF LogMatching
<1> DEFINE a == raft[i].log
           b == raft[j].log
           F == logFragment(a)
           G == logFragment(b)
<1>1. a \in Seq(Entry) /\ b \in Seq(Entry) /\ a \in Log /\ b \in Log
  BY DEF TypeOK, RaftState, Log
<1>2. /\ F.prev = 0 /\ F.prevTerm = 0 /\ Indices(F) = 1 .. Len(a)
      /\ \A q \in 1 .. Len(a) : At(F, q) = a[q]
  BY <1>1, LogFragment
<1>3. /\ G.prev = 0 /\ G.prevTerm = 0 /\ Indices(G) = 1 .. Len(b)
      /\ \A q \in 1 .. Len(b) : At(G, q) = b[q]
  BY <1>1, LogFragment
<1>4. Agree(F, G)
  BY DEF LogInv, FragmentsAgree, Fragments
<1> HIDE DEF F, G
<1>5. k \in 1 .. Len(a) /\ k \in 1 .. Len(b) /\ Len(a) \in Nat /\ Len(b) \in Nat
  BY <1>1
<1>6. a[k] = b[k]
  BY <1>2, <1>3, <1>4, <1>5 DEF Agree
<1>7. ASSUME NEW p \in 1 .. k - 1 PROVE a[p] = b[p]
  <2>1. p \in 1 .. Len(a) /\ p \in 1 .. Len(b) /\ p \in 0 .. k - 1 /\ p >= 0 /\ p # 0
    BY <1>5
  <2>2. TermAt(F, p) = TermAt(G, p)
    BY <1>2, <1>3, <1>4, <1>5, <2>1 DEF Agree
  <2>3. At(F, p).term = At(G, p).term
    BY <1>2, <1>3, <2>1, <2>2 DEF TermAt
  <2> QED BY <1>2, <1>3, <1>4, <2>1, <2>3 DEF Agree
<1>8. \A p \in 1 .. k : a[p] = b[p]
  BY <1>5, <1>6, <1>7
<1> HIDE DEF a, b
<1>9. SubSeq(a, 1, k) = SubSeq(b, 1, k)
  BY <1>1, <1>5, <1>8
<1> QED
  BY <1>9 DEF a, b
=============================================================================
