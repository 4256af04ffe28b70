---------------------------- MODULE TieringProofs ----------------------------
(***************************************************************************)
(* Theorems about Tiering for any prototypes, call graph, policy decisions *)
(* and bounds.                                                             *)
(***************************************************************************)
EXTENDS Tiering, SequenceTheorems, TLAPS

Entry == 0..MaxBodies \cup {Tier1}

(* The fields that the policy keeps for itself are left out below. *)
SameCode(m, n) ==
    /\ n.made = m.made /\ n.body = m.body /\ n.compiled = m.compiled
    /\ n.dependents = m.dependents
SameEntries(m, n) == n.direct = m.direct /\ n.tier2 = m.tier2 /\ n.cached = m.cached

LEMMA Fields ==
    ASSUME NEW m \in Manager
    PROVE  /\ m.made \in 0..MaxBodies /\ m.body \in [Bodies -> Body]
           /\ m.compiled \in [Protos -> 0..MaxBodies]
           /\ m.dependents \in [Protos -> SUBSET Protos]
           /\ m.direct \in [Protos -> Entry] /\ m.tier2 \in [Protos -> 0..MaxBodies]
           /\ m.cached \in [Protos -> SUBSET (Bodies \cup {Tier1})]
           /\ m.failed \in SUBSET Protos /\ m.requests \in SUBSET Protos
           /\ m.promoted \in SUBSET Protos /\ m.baseline \in SUBSET Protos
           /\ m.quiet \in SUBSET Protos /\ m.osr \in SUBSET Protos
  BY DEF Manager, Entry

LEMMA SetEntriesFields ==
    ASSUME NEW m \in Manager, NEW p \in Protos, NEW d \in Entry, NEW t \in 0..MaxBodies
    PROVE  LET n == SetEntries(m, p, d, t)
           IN /\ n \in Manager /\ SameCode(m, n)
              /\ n.direct[p] = d /\ n.tier2[p] = t
              /\ n.cached[p] = {} \/ (n.cached[p] = m.cached[p] /\ m.direct[p] = d /\ m.tier2[p] = t)
              /\ \A q \in Protos \ {p} : /\ n.direct[q] = m.direct[q] /\ n.tier2[q] = m.tier2[q]
                                         /\ n.cached[q] = m.cached[q]
<1> DEFINE n == SetEntries(m, p, d, t)
<1>1. CASE m.direct[p] = d /\ m.tier2[p] = t
  BY <1>1 DEF SetEntries, SameCode
<1>2. CASE ~(m.direct[p] = d /\ m.tier2[p] = t)
  <2>1. n = [m EXCEPT !.direct[p] = d, !.tier2[p] = t, !.cached[p] = {}]
    BY <1>2 DEF SetEntries
  <2>2. n = [m EXCEPT !.direct = [m.direct EXCEPT ![p] = d], !.tier2 = [m.tier2 EXCEPT ![p] = t],
                      !.cached = [m.cached EXCEPT ![p] = {}]]
    BY <2>1
  <2> HIDE DEF n
  <2>3. n \in Manager
    BY <2>2, Fields DEF Manager, Entry
  <2>4. /\ n.direct = [m.direct EXCEPT ![p] = d] /\ n.tier2 = [m.tier2 EXCEPT ![p] = t]
        /\ n.cached = [m.cached EXCEPT ![p] = {}] /\ SameCode(m, n)
    BY <2>2 DEF Manager, SameCode
  <2>5. QED
    BY <2>3, <2>4, Fields DEF n
<1>3. QED
  BY <1>1, <1>2

(* A step of the policy. *)
LEMMA PolicyFields ==
    ASSUME NEW m \in Manager, NEW X \in SUBSET Protos,
           NEW n \in {[m EXCEPT !.failed = X], [m EXCEPT !.requests = X],
                      [m EXCEPT !.promoted = X], [m EXCEPT !.baseline = X],
                      [m EXCEPT !.quiet = X], [m EXCEPT !.osr = X]}
    PROVE  n \in Manager /\ SameCode(m, n) /\ SameEntries(m, n)
  BY DEF Manager, SameCode, SameEntries

-----------------------------------------------------------------------------
(* The invariant of the manager, in parts. *)
BodiesAreMade(m) == \A p \in Protos : m.compiled[p] <= m.made
IndexExact(m) ==
    \A p, q \in Protos :
        p \in m.dependents[q] <=> /\ p # q /\ m.compiled[p] # 0
                                  /\ q \in m.body[m.compiled[p]].callees
CacheExact(m) == \A p \in Protos : m.cached[p] \subseteq {Loaded(m, p)}
Follows(m, p) == ~CallsNamesake(p) /\ (m.compiled[p] # 0 \/ p \notin Calls[p])
EntryExact(m, p) ==
    Follows(m, p) => /\ m.tier2[p] \in {0, m.compiled[p]}
                     /\ m.direct[p] \in {0, Tier1, m.compiled[p]}

Good(m) ==
    /\ m \in Manager
    /\ BodiesAreMade(m) /\ IndexExact(m) /\ CacheExact(m)
    /\ \A p \in Protos : EntryExact(m, p)

(* What a step may do to the bodies: publish one for p, or none; the others
   stay published or are revoked. *)
SameFacts(m, n) == \A c \in 1..m.made : n.body[c].epoch = m.body[c].epoch
Sheds(m, n) ==
    /\ Good(n) /\ n.made = m.made /\ SameFacts(m, n)
    /\ \A p \in Protos : n.compiled[p] \in {0, m.compiled[p]}
Publishes(m, n, p) ==
    /\ Good(n) /\ n.made = m.made + 1 /\ SameFacts(m, n)
    /\ n.compiled[p] = n.made /\ n.body[n.made].epoch = epoch
    /\ \A q \in Protos \ {p} : n.compiled[q] \in {0, m.compiled[q]}

LEMMA ShedsSelf ==
    ASSUME NEW m, Good(m)
    PROVE  Sheds(m, m)
  BY DEF Sheds, SameFacts

LEMMA ShedsTwice ==
    ASSUME NEW m, NEW n, NEW k, Sheds(m, n), Sheds(n, k)
    PROVE  Sheds(m, k)
  BY DEF Sheds, SameFacts

LEMMA ShedsPublishes ==
    ASSUME NEW m, NEW n, NEW k, NEW p \in Protos, Good(m), Sheds(m, n), Publishes(n, k, p)
    PROVE  Publishes(m, k, p)
  BY DEF Sheds, Publishes, SameFacts

LEMMA PolicyGood ==
    ASSUME NEW m, Good(m), NEW n \in Manager, SameCode(m, n), SameEntries(m, n)
    PROVE  Sheds(m, n)
<1>1. BodiesAreMade(n) /\ IndexExact(n)
  BY DEF Good, SameCode, BodiesAreMade, IndexExact
<1>2. CacheExact(n)
  BY DEF Good, SameEntries, CacheExact, Loaded
<1>3. \A p \in Protos : EntryExact(n, p)
  BY DEF Good, SameCode, SameEntries, EntryExact, Follows
<1>4. QED
  BY <1>1, <1>2, <1>3 DEF Good, Sheds, SameCode, SameFacts

LEMMA PolicySheds ==
    ASSUME NEW m, Good(m), NEW X \in SUBSET Protos,
           NEW n \in {[m EXCEPT !.failed = X], [m EXCEPT !.requests = X],
                      [m EXCEPT !.promoted = X], [m EXCEPT !.baseline = X],
                      [m EXCEPT !.quiet = X], [m EXCEPT !.osr = X]}
    PROVE  Sheds(m, n)
<1>1. m \in Manager
  BY DEF Good
<1>2. n \in Manager /\ SameCode(m, n) /\ SameEntries(m, n)
  BY <1>1, PolicyFields
<1>3. QED
  BY <1>2, PolicyGood

(* SetDirectEntries gives the call sites a new version whenever it changes an
   entry, so what they remember is what they would load. *)
LEMMA SetEntriesGood ==
    ASSUME NEW m, Good(m), NEW p \in Protos, NEW d \in Entry, NEW t \in 0..MaxBodies,
           Follows(m, p) => t \in {0, m.compiled[p]} /\ d \in {0, Tier1, m.compiled[p]}
    PROVE  Sheds(m, SetEntries(m, p, d, t))
<1> DEFINE n == SetEntries(m, p, d, t)
<1>1. /\ n \in Manager /\ SameCode(m, n)
      /\ n.direct[p] = d /\ n.tier2[p] = t
      /\ n.cached[p] = {} \/ (n.cached[p] = m.cached[p] /\ m.direct[p] = d /\ m.tier2[p] = t)
      /\ \A q \in Protos \ {p} : /\ n.direct[q] = m.direct[q] /\ n.tier2[q] = m.tier2[q]
                                 /\ n.cached[q] = m.cached[q]
  BY SetEntriesFields DEF Good
<1> HIDE DEF n
<1>2. BodiesAreMade(n) /\ IndexExact(n)
  BY <1>1 DEF Good, SameCode, BodiesAreMade, IndexExact
<1>3. CacheExact(n)
  BY <1>1 DEF Good, CacheExact, Loaded
<1>4. \A q \in Protos : EntryExact(n, q)
  BY <1>1 DEF Good, SameCode, EntryExact, Follows
<1>5. QED
  BY <1>1, <1>2, <1>3, <1>4 DEF Good, Sheds, SameCode, SameFacts, n

LEMMA ClearPointersGood ==
    ASSUME NEW m, Good(m), NEW p \in Protos
    PROVE  Sheds(m, ClearPointers(m, p))
<1> DEFINE n == SetEntries(m, p, 0, 0)
<1>1. Sheds(m, n)
  BY SetEntriesGood, TieringAssumption DEF Entry
<1>2. Good(n) /\ n.promoted \ {p} \in SUBSET Protos
  BY <1>1, Fields DEF Sheds, Good
<1> HIDE DEF n
<1>3. Sheds(n, [n EXCEPT !.promoted = n.promoted \ {p}])
  BY <1>2, PolicySheds
<1>4. QED
  BY <1>1, <1>3, ShedsTwice DEF ClearPointers, n

LEMMA CompileBaselineGood ==
    ASSUME NEW m, Good(m), NEW p \in Protos
    PROVE  Sheds(m, CompileBaseline(m, p))
<1> DEFINE d == IF p \in Replay THEN Tier1 ELSE 0
           n == SetEntries(m, p, d, m.tier2[p])
<1>1. CASE p \in m.baseline
  BY <1>1, ShedsSelf DEF CompileBaseline
<1>2. CASE p \notin m.baseline
  <2>1. d \in Entry /\ m.tier2[p] \in 0..MaxBodies
    BY Fields, TieringAssumption DEF Entry, Good
  <2>2. Follows(m, p) => m.tier2[p] \in {0, m.compiled[p]} /\ d \in {0, Tier1, m.compiled[p]}
    BY DEF Good, EntryExact
  <2>3. Sheds(m, n)
    BY <2>1, <2>2, SetEntriesGood
  <2>4. Good(n) /\ n.baseline \cup {p} \in SUBSET Protos
    BY <2>3, Fields DEF Sheds, Good
  <2> HIDE DEF n
  <2>5. Sheds(n, [n EXCEPT !.baseline = n.baseline \cup {p}])
    BY <2>4, PolicySheds
  <2>6. CompileBaseline(m, p) = [n EXCEPT !.baseline = n.baseline \cup {p}]
    BY <1>2 DEF CompileBaseline, n
  <2>7. QED
    BY <2>3, <2>5, <2>6, ShedsTwice
<1>3. QED
  BY <1>1, <1>2

LEMMA EvictBaselineGood ==
    ASSUME NEW m, Good(m), NEW p \in Protos
    PROVE  Sheds(m, EvictBaseline(m, p))
<1> DEFINE n == ClearPointers(m, p)
<1>1. Sheds(m, n)
  BY ClearPointersGood
<1>2. Good(n) /\ n.baseline \ {p} \in SUBSET Protos
  BY <1>1, Fields DEF Sheds, Good
<1> HIDE DEF n
<1>3. Sheds(n, [n EXCEPT !.baseline = n.baseline \ {p}])
  BY <1>2, PolicySheds
<1>4. QED
  BY <1>1, <1>3, ShedsTwice DEF EvictBaseline, n

LEMMA DisableFeedbackGood ==
    ASSUME NEW m, Good(m), NEW p \in Protos
    PROVE  Sheds(m, DisableFeedback(m, p))
<1> DEFINE n == EvictBaseline(m, p)
<1>1. CASE p \in m.quiet
  BY <1>1, ShedsSelf DEF DisableFeedback
<1>2. CASE p \notin m.quiet
  <2>1. Sheds(m, n)
    BY EvictBaselineGood
  <2>2. Good(n) /\ n.quiet \cup {p} \in SUBSET Protos
    BY <2>1, Fields DEF Sheds, Good
  <2> HIDE DEF n
  <2>3. Sheds(n, [n EXCEPT !.quiet = n.quiet \cup {p}])
    BY <2>2, PolicySheds
  <2>4. QED
    BY <1>2, <2>1, <2>3, ShedsTwice DEF DisableFeedback, n
<1>3. QED
  BY <1>1, <1>2

(* Marks and requests. *)
LEMMA MarkGood ==
    ASSUME NEW m, Good(m), NEW p \in Protos
    PROVE  /\ Sheds(m, MarkFailed(m, p)) /\ Sheds(m, Request(m, p))
           /\ Sheds(m, ArmOSR(m, p)) /\ Sheds(m, DisarmOSR(m, p))
<1>1. /\ m.failed \cup {p} \in SUBSET Protos /\ m.requests \cup {p} \in SUBSET Protos
      /\ m.osr \cup {p} \in SUBSET Protos /\ m.osr \ {p} \in SUBSET Protos
  BY Fields DEF Good
<1>2. /\ Sheds(m, [m EXCEPT !.failed = m.failed \cup {p}])
      /\ Sheds(m, [m EXCEPT !.requests = m.requests \cup {p}])
      /\ Sheds(m, [m EXCEPT !.osr = m.osr \cup {p}])
      /\ Sheds(m, [m EXCEPT !.osr = m.osr \ {p}])
  BY <1>1, PolicySheds
<1>3. QED
  BY <1>2 DEF MarkFailed, Request, ArmOSR, DisarmOSR

(* Revoking bodies revokes their entries, and takes them off the index. *)
LEMMA ClearInstallsFields ==
    ASSUME NEW m \in Manager, NEW S \in SUBSET Protos
    PROVE  LET n == ClearInstalls(m, S)
           IN /\ n \in Manager /\ n.made = m.made /\ n.body = m.body
              /\ n.requests = m.requests
              /\ \A p \in S : n.compiled[p] = 0 /\ n.direct[p] = 0 /\ n.tier2[p] = 0
              /\ \A p \in Protos : /\ n.dependents[p] = m.dependents[p] \ S
                                   /\ n.cached[p] = {} \/ (n.cached[p] = m.cached[p] /\ (p \notin S \/ Loaded(m, p) = 0))
              /\ \A p \in Protos \ S : /\ n.compiled[p] = m.compiled[p] /\ n.direct[p] = m.direct[p]
                                       /\ n.tier2[p] = m.tier2[p]
<1> DEFINE n == ClearInstalls(m, S)
           co == [p \in Protos |-> IF p \in S THEN 0 ELSE m.compiled[p]]
           de == [q \in Protos |-> m.dependents[q] \ S]
           di == [p \in Protos |-> IF p \in S THEN 0 ELSE m.direct[p]]
           ti == [p \in Protos |-> IF p \in S THEN 0 ELSE m.tier2[p]]
           ca == [p \in Protos |-> IF p \in S /\ Loaded(m, p) # 0 THEN {} ELSE m.cached[p]]
           pr == m.promoted \ S
<1>1. n = [m EXCEPT !.compiled = co, !.dependents = de, !.direct = di, !.tier2 = ti,
                    !.cached = ca, !.promoted = pr]
  BY DEF ClearInstalls
<1>2. /\ co \in [Protos -> 0..MaxBodies] /\ de \in [Protos -> SUBSET Protos]
      /\ di \in [Protos -> Entry] /\ ti \in [Protos -> 0..MaxBodies]
      /\ ca \in [Protos -> SUBSET (Bodies \cup {Tier1})] /\ pr \in SUBSET Protos
  <2>1. co \in [Protos -> 0..MaxBodies] /\ ti \in [Protos -> 0..MaxBodies]
    BY Fields, TieringAssumption
  <2>2. de \in [Protos -> SUBSET Protos] /\ pr \in SUBSET Protos
    BY Fields
  <2>3. di \in [Protos -> Entry]
    BY Fields, TieringAssumption DEF Entry
  <2>4. ca \in [Protos -> SUBSET (Bodies \cup {Tier1})]
    BY Fields
  <2>5. QED
    BY <2>1, <2>2, <2>3, <2>4
<1>3. /\ \A p \in S : co[p] = 0 /\ di[p] = 0 /\ ti[p] = 0
      /\ \A p \in Protos : /\ de[p] = m.dependents[p] \ S
                           /\ ca[p] = {} \/ (ca[p] = m.cached[p] /\ (p \notin S \/ Loaded(m, p) = 0))
      /\ \A p \in Protos \ S : co[p] = m.compiled[p] /\ di[p] = m.direct[p] /\ ti[p] = m.tier2[p]
  OBVIOUS
<1> HIDE DEF n, co, de, di, ti, ca, pr
<1>4. n \in Manager
  BY <1>1, <1>2 DEF Manager, Entry
<1>5. /\ n.made = m.made /\ n.body = m.body /\ n.requests = m.requests
      /\ n.compiled = co /\ n.dependents = de
      /\ n.direct = di /\ n.tier2 = ti /\ n.cached = ca
  BY <1>1 DEF Manager
<1>6. QED
  BY <1>3, <1>4, <1>5 DEF n

LEMMA ClearInstallsGood ==
    ASSUME NEW m, Good(m), NEW S \in SUBSET Protos
    PROVE  Sheds(m, ClearInstalls(m, S)) /\ \A p \in S : ClearInstalls(m, S).compiled[p] = 0
<1> DEFINE n == ClearInstalls(m, S)
<1>0. m \in Manager
  BY DEF Good
<1>1. /\ n \in Manager /\ n.made = m.made /\ n.body = m.body
      /\ \A p \in S : n.compiled[p] = 0 /\ n.direct[p] = 0 /\ n.tier2[p] = 0
      /\ \A p \in Protos : /\ n.dependents[p] = m.dependents[p] \ S
                           /\ n.cached[p] = {} \/ (n.cached[p] = m.cached[p] /\ (p \notin S \/ Loaded(m, p) = 0))
      /\ \A p \in Protos \ S : /\ n.compiled[p] = m.compiled[p] /\ n.direct[p] = m.direct[p]
                               /\ n.tier2[p] = m.tier2[p]
  BY <1>0, ClearInstallsFields
<1>2. m.made \in Nat /\ \A p \in Protos : m.compiled[p] \in Nat
  BY <1>0, Fields
<1> HIDE DEF n
<1>3. BodiesAreMade(n)
  BY <1>1, <1>2 DEF Good, BodiesAreMade
<1>4. IndexExact(n)
  BY <1>1 DEF Good, IndexExact
<1>5. CacheExact(n)
  BY <1>1 DEF Good, CacheExact, Loaded
<1>6. \A q \in Protos : EntryExact(n, q)
  BY <1>1 DEF Good, EntryExact, Follows
<1>7. QED
  BY <1>1, <1>3, <1>4, <1>5, <1>6 DEF Good, Sheds, SameFacts, n

LEMMA ClearInstallGood ==
    ASSUME NEW m, Good(m), NEW p \in Protos
    PROVE  Sheds(m, ClearInstall(m, p)) /\ ClearInstall(m, p).compiled[p] = 0
  BY ClearInstallsGood DEF ClearInstall

(* Code that tier2CompiledFor returns is valid. *)
LEMMA CheckGood ==
    ASSUME NEW m, Good(m), NEW p \in Protos
    PROVE  /\ Sheds(m, CheckDependencies(m, p))
           /\ ~Stale(CheckDependencies(m, p), p)
<1>1. CASE Stale(m, p)
  BY <1>1, ClearInstallGood DEF CheckDependencies, Stale
<1>2. CASE ~Stale(m, p)
  BY <1>2, ShedsSelf DEF CheckDependencies
<1>3. QED
  BY <1>1, <1>2

LEMMA QueueGood ==
    ASSUME NEW m, Good(m), NEW q \in Protos
    PROVE  /\ Sheds(m, QueueDependents(m, q))
           /\ QueueDependents(m, q).compiled[q] = m.compiled[q]
           /\ QueueDependents(m, q).body = m.body
<1> DEFINE callers == {p \in m.dependents[q] \ {q} : m.compiled[p] # 0}
           stale == {p \in callers : Stale(m, p)}
           fresh == (callers \ stale) \ m.requests
           S == stale \cup fresh
           n == ClearInstalls(m, S)
<1>0. m \in Manager /\ m.dependents[q] \in SUBSET Protos
  BY Fields DEF Good
<1>1. S \in SUBSET Protos /\ fresh \in SUBSET Protos /\ q \notin S
  BY <1>0
<1>2. QueueDependents(m, q) = [n EXCEPT !.requests = n.requests \cup fresh]
  BY DEF QueueDependents
<1> HIDE DEF S, fresh
<1>3. Sheds(m, n)
  BY <1>1, ClearInstallsGood
<1>4. n.compiled[q] = m.compiled[q] /\ n.body = m.body
  BY <1>0, <1>1, ClearInstallsFields
<1>5. Good(n) /\ n.requests \cup fresh \in SUBSET Protos
  BY <1>1, <1>3, Fields DEF Sheds, Good
<1> HIDE DEF n
<1>6. Sheds(n, [n EXCEPT !.requests = n.requests \cup fresh])
  BY <1>5, PolicySheds
<1>7. /\ [n EXCEPT !.requests = n.requests \cup fresh].compiled = n.compiled
      /\ [n EXCEPT !.requests = n.requests \cup fresh].body = n.body
  BY <1>5 DEF Good, Manager
<1>8. QED
  BY <1>2, <1>3, <1>4, <1>6, <1>7, ShedsTwice

(* Publishing a body. *)
LEMMA InstallFields ==
    ASSUME NEW m \in Manager, NEW p \in Protos, NEW c \in Bodies
    PROVE  LET n == Install(m, p, c)
           IN /\ n \in Manager /\ SameCode(m, n)
              /\ n.direct[p] \in {0, c} /\ n.tier2[p] \in {0, c}
              /\ \/ n.cached[p] = {}
                 \/ /\ n.cached[p] = m.cached[p]
                    /\ m.direct[p] = n.direct[p] /\ m.tier2[p] = n.tier2[p]
              /\ \A q \in Protos \ {p} : /\ n.direct[q] = m.direct[q] /\ n.tier2[q] = m.tier2[q]
                                         /\ n.cached[q] = m.cached[q]
<1> DEFINE ca == [m.cached EXCEPT ![p] = IF p \in m.promoted THEN m.cached[p] ELSE {}]
           pr == m.promoted \cup {p}
           k == [m EXCEPT !.promoted = pr, !.cached = ca]
           d == IF p \in Direct \cap Replay THEN c ELSE 0
           t == IF p \in Direct THEN c ELSE 0
           n == Install(m, p, c)
<1>1. n = SetEntries(k, p, d, t)
  BY DEF Install
<1>2. pr \in SUBSET Protos /\ ca \in [Protos -> SUBSET (Bodies \cup {Tier1})]
  BY Fields
<1>3. /\ ca[p] = m.cached[p] \/ ca[p] = {}
      /\ \A q \in Protos \ {p} : ca[q] = m.cached[q]
  BY Fields
<1>4. d \in Entry /\ t \in 0..MaxBodies /\ d \in {0, c} /\ t \in {0, c}
  BY TieringAssumption DEF Entry, Bodies
<1> HIDE DEF ca, pr, d, t
<1>5. k \in Manager /\ SameCode(m, k) /\ k.direct = m.direct /\ k.tier2 = m.tier2 /\ k.cached = ca
  BY <1>2 DEF Manager, SameCode
<1> HIDE DEF k, n
<1>6. /\ n \in Manager /\ SameCode(k, n)
      /\ n.direct[p] = d /\ n.tier2[p] = t
      /\ n.cached[p] = {} \/ (n.cached[p] = k.cached[p] /\ k.direct[p] = d /\ k.tier2[p] = t)
      /\ \A q \in Protos \ {p} : /\ n.direct[q] = k.direct[q] /\ n.tier2[q] = k.tier2[q]
                                 /\ n.cached[q] = k.cached[q]
  BY <1>1, <1>4, <1>5, SetEntriesFields
<1>7. QED
  BY <1>3, <1>4, <1>5, <1>6 DEF SameCode, n

LEMMA RegisterFields ==
    ASSUME NEW m \in Manager, NEW p \in Protos, NEW c \in Bodies
    PROVE  LET n == [Register(m, p, c) EXCEPT !.compiled[p] = c]
           IN /\ n \in Manager /\ SameEntries(m, n) /\ n.made = m.made /\ n.body = m.body
              /\ n.compiled[p] = c /\ \A q \in Protos \ {p} : n.compiled[q] = m.compiled[q]
              /\ \A q \in Protos : /\ p \in n.dependents[q] <=> q \in m.body[c].callees \ {p}
                                   /\ \A r \in Protos \ {p} :
                                        r \in n.dependents[q] <=> r \in m.dependents[q]
<1> DEFINE de == [q \in Protos |-> IF q \in m.body[c].callees \ {p} THEN m.dependents[q] \cup {p}
                                                                ELSE m.dependents[q] \ {p}]
           co == [m.compiled EXCEPT ![p] = c]
           n == [Register(m, p, c) EXCEPT !.compiled[p] = c]
<1>1. n = [m EXCEPT !.dependents = de, !.compiled = co]
  <2>1. Register(m, p, c) = [m EXCEPT !.dependents = de]
    BY DEF Register
  <2> HIDE DEF de
  <2>2. n = [[m EXCEPT !.dependents = de] EXCEPT !.compiled[p] = c]
    BY <2>1
  <2>3. [m EXCEPT !.dependents = de].compiled = m.compiled
    BY DEF Manager
  <2>4. QED
    BY <2>2, <2>3
<1>2. de \in [Protos -> SUBSET Protos] /\ co \in [Protos -> 0..MaxBodies]
  BY Fields DEF Bodies
<1>3. co[p] = c /\ \A q \in Protos \ {p} : co[q] = m.compiled[q]
  BY Fields
<1>4. \A q \in Protos : /\ p \in de[q] <=> q \in m.body[c].callees \ {p}
                        /\ \A r \in Protos \ {p} : r \in de[q] <=> r \in m.dependents[q]
  BY Fields
<1> HIDE DEF de, co, n
<1>5. n \in Manager
  BY <1>1, <1>2 DEF Manager
<1>6. /\ SameEntries(m, n) /\ n.made = m.made /\ n.body = m.body
      /\ n.dependents = de /\ n.compiled = co
  BY <1>1 DEF Manager, SameEntries
<1>7. QED
  BY <1>3, <1>4, <1>5, <1>6 DEF n

LEMMA PublishGood ==
    ASSUME NEW m, Good(m), NEW p \in Protos, NEW b \in Body, b.epoch = epoch, m.made # MaxBodies
    PROVE  LET c == m.made + 1
           IN Publishes(m, Publish([m EXCEPT !.made = c, !.body[c] = b], p, c), p)
<1> DEFINE c == m.made + 1
           bo == [m.body EXCEPT ![c] = b]
           k == [m EXCEPT !.made = c, !.body[c] = b]
           i == Install(k, p, c)
           r == [Register(i, p, c) EXCEPT !.compiled[p] = c]
           n == QueueDependents(r, p)
<1>0. m \in Manager /\ c \in Bodies /\ c \in Nat /\ MaxBodies \in Nat /\ m.made \in Nat
  BY Fields, TieringAssumption DEF Good, Bodies
<1>1. bo \in [Bodies -> Body] /\ bo[c] = b /\ \A e \in Bodies \ {c} : bo[e] = m.body[e]
  BY <1>0, Fields
<1>2. k = [m EXCEPT !.made = c, !.body = bo]
  OBVIOUS
<1>3. c \in 0..MaxBodies
  BY <1>0 DEF Bodies
<1> HIDE DEF c, bo, k
<1>4. k \in Manager /\ k.made = c /\ k.body = bo /\ k.compiled = m.compiled
      /\ k.dependents = m.dependents /\ SameEntries(m, k)
  BY <1>0, <1>1, <1>2, <1>3 DEF Manager, SameEntries
<1>5. /\ i \in Manager /\ SameCode(k, i)
      /\ i.direct[p] \in {0, c} /\ i.tier2[p] \in {0, c}
      /\ \/ i.cached[p] = {}
         \/ /\ i.cached[p] = k.cached[p]
            /\ k.direct[p] = i.direct[p] /\ k.tier2[p] = i.tier2[p]
      /\ \A q \in Protos \ {p} : /\ i.direct[q] = k.direct[q] /\ i.tier2[q] = k.tier2[q]
                                 /\ i.cached[q] = k.cached[q]
  BY <1>0, <1>4, InstallFields
<1> HIDE DEF i
<1>6. /\ r \in Manager /\ SameEntries(i, r) /\ r.made = i.made /\ r.body = i.body
      /\ r.compiled[p] = c /\ \A q \in Protos \ {p} : r.compiled[q] = i.compiled[q]
      /\ \A q \in Protos : /\ p \in r.dependents[q] <=> q \in i.body[c].callees \ {p}
                           /\ \A s \in Protos \ {p} :
                                s \in r.dependents[q] <=> s \in i.dependents[q]
  BY <1>0, <1>5, RegisterFields
<1> HIDE DEF r
<1>7. /\ r.made = c /\ r.body = bo
      /\ \A q \in Protos \ {p} : r.compiled[q] = m.compiled[q] /\ r.compiled[q] <= m.made
      /\ \A q \in Protos : /\ r.compiled[q] \in 0..MaxBodies /\ m.compiled[q] \in 0..MaxBodies
                           /\ m.compiled[q] <= m.made
    BY <1>0, <1>4, <1>5, <1>6, Fields DEF SameCode, Good, BodiesAreMade
<1>8. Good(r)
  <2>1. BodiesAreMade(r)
    BY <1>0, <1>6, <1>7 DEF BodiesAreMade, c
  <2>2. IndexExact(r)
    <3> SUFFICES ASSUME NEW s \in Protos, NEW q \in Protos
                 PROVE  s \in r.dependents[q] <=> /\ s # q /\ r.compiled[s] # 0
                                                  /\ q \in r.body[r.compiled[s]].callees
      BY DEF IndexExact
    <3>1. CASE s = p
      <4>1. c # 0
        BY <1>0 DEF Bodies
      <4>2. QED
        BY <1>4, <1>5, <1>6, <1>7, <3>1, <4>1 DEF SameCode
    <3>2. CASE s # p
      <4>1. s \in r.dependents[q] <=> s \in m.dependents[q]
        BY <1>4, <1>5, <1>6, <3>2 DEF SameCode
      <4>2. m.compiled[s] # 0 => r.body[m.compiled[s]] = m.body[m.compiled[s]]
        <5>1. m.compiled[s] # c
          BY <1>0, <1>7 DEF c
        <5>2. m.compiled[s] # 0 => m.compiled[s] \in Bodies
          BY <1>0, <1>7 DEF Bodies
        <5>3. QED
          BY <1>1, <1>7, <5>1, <5>2
      <4>3. r.compiled[s] = m.compiled[s]
        BY <1>7, <3>2
      <4>4. QED
        BY <4>1, <4>2, <4>3 DEF Good, IndexExact
    <3>3. QED
      BY <3>1, <3>2
  <2>3. CacheExact(r)
    BY <1>4, <1>5, <1>6 DEF Good, CacheExact, Loaded, SameEntries
  <2>4. \A q \in Protos : EntryExact(r, q)
    BY <1>4, <1>5, <1>6, <1>7 DEF Good, EntryExact, Follows, SameEntries
  <2>5. QED
    BY <1>6, <2>1, <2>2, <2>3, <2>4 DEF Good
<1>9. Sheds(r, n) /\ n.compiled[p] = r.compiled[p] /\ n.body = r.body
  BY <1>8, QueueGood
<1>10. n = Publish(k, p, c)
  BY DEF Publish, i, r
<1> HIDE DEF n
<1>11. Publishes(m, n, p)
  <2>1. Good(n) /\ n.made = c /\ n.compiled[p] = c
    BY <1>6, <1>7, <1>9 DEF Sheds
  <2>2. SameFacts(m, n)
    <3>1. ASSUME NEW e \in 1..m.made PROVE n.body[e].epoch = m.body[e].epoch
      <4>1. e \in Bodies \ {c}
        BY <1>0, <3>1 DEF Bodies, c
      <4>2. QED
        BY <1>1, <1>7, <1>9, <4>1
    <3>2. QED
      BY <3>1 DEF SameFacts
  <2>3. n.body[c].epoch = epoch
    BY <1>1, <1>7, <1>9
  <2>4. \A q \in Protos \ {p} : n.compiled[q] \in {0, m.compiled[q]}
    BY <1>7, <1>9 DEF Sheds
  <2>5. QED
    BY <2>1, <2>2, <2>3, <2>4 DEF Publishes, c
<1>12. QED
  BY <1>10, <1>11 DEF k, c

(* A compilation that succeeds. *)
LEMMA CompiledGood ==
    ASSUME NEW m, Good(m), NEW p \in Protos, NEW n \in Compiled(m, p),
           feedback \in [Protos -> 0..MaxFeedback], epoch \in 0..MaxEpoch
    PROVE  Publishes(m, n, p)
<1> DEFINE c == m.made + 1
           With(s) == [epoch |-> epoch, callees |-> s, seen |-> feedback[p]]
<1>1. m.made # MaxBodies
  BY DEF Compiled
<1>2. PICK s \in SUBSET (Calls[p] \ {p}) :
        n = Publish([m EXCEPT !.made = c, !.body[c] = With(s)], p, c)
  BY <1>1 DEF Compiled
<1>3. With(s) \in Body /\ With(s).epoch = epoch
  BY TieringAssumption DEF Body
<1> HIDE DEF With
<1>4. QED
  BY <1>1, <1>2, <1>3, PublishGood

(* The handlers' own operators. *)
LEMMA FailedGood ==
    ASSUME NEW m, Good(m), NEW p \in Protos, NEW n \in Rejected(m, p) \cup Failed(m, p)
    PROVE  Sheds(m, n)
  BY MarkGood, ShedsSelf DEF Rejected, Failed

LEMMA PrepareGood ==
    ASSUME NEW m, Good(m), NEW p \in Protos
    PROVE  Sheds(m, Prepare(m, p)) /\ ~Stale(Prepare(m, p), p)
<1> DEFINE n == CheckDependencies(m, p)
           k == ClearInstall(n, p)
           j == [k EXCEPT !.requests = k.requests \ {p}]
<1>1. Sheds(m, n) /\ ~Stale(n, p) /\ Good(n)
  BY CheckGood DEF Sheds
<1> HIDE DEF n
<1>2. CASE p \in n.requests
  <2>1. Sheds(n, k) /\ k.compiled[p] = 0 /\ Good(k)
    BY <1>1, ClearInstallGood DEF Sheds
  <2>2. k.requests \ {p} \in SUBSET Protos /\ k \in Manager
    BY <2>1, Fields DEF Good
  <2> HIDE DEF k
  <2>3. Sheds(k, j) /\ j.compiled = k.compiled
    BY <2>1, <2>2, PolicySheds DEF Manager
  <2>4. Prepare(m, p) = j
    BY <1>2 DEF Prepare, n, k
  <2>5. ~Stale(j, p)
    BY <2>1, <2>3 DEF Stale
  <2> HIDE DEF j
  <2>6. QED
    BY <1>1, <2>1, <2>3, <2>4, <2>5, ShedsTwice
<1>3. CASE p \notin n.requests
  BY <1>1, <1>3 DEF Prepare, n
<1>4. QED
  BY <1>2, <1>3

LEMMA UseTier1Good ==
    ASSUME NEW m, Good(m), NEW p \in Protos, NEW n \in UseTier1(m, p)
    PROVE  Sheds(m, n)
<1>1. \/ n = CompileBaseline(DisableFeedback(m, p), p)
      \/ n = CompileBaseline(m, p)
      \/ n = ArmOSR(CompileBaseline(m, p), p)
  BY DEF UseTier1
<1>2. Sheds(m, DisableFeedback(m, p)) /\ Sheds(m, CompileBaseline(m, p))
  BY DisableFeedbackGood, CompileBaselineGood
<1>3. Good(DisableFeedback(m, p)) /\ Good(CompileBaseline(m, p))
  BY <1>2 DEF Sheds
<1>4. /\ Sheds(DisableFeedback(m, p), CompileBaseline(DisableFeedback(m, p), p))
      /\ Sheds(CompileBaseline(m, p), ArmOSR(CompileBaseline(m, p), p))
  BY <1>3, CompileBaselineGood, MarkGood
<1>5. QED
  BY <1>1, <1>2, <1>4, ShedsTwice

LEMMA ProfiledGood ==
    ASSUME NEW m, Good(m), NEW p \in Protos, NEW c, NEW n \in Profiled(m, p, c)
    PROVE  Sheds(m, n)
<1>1. n \in {m, Request(m, p), Request(ClearInstall(m, p), p)}
  BY DEF Profiled
<1>2. Sheds(m, ClearInstall(m, p)) /\ Good(ClearInstall(m, p))
  BY ClearInstallGood DEF Sheds
<1>3. Sheds(m, m) /\ Sheds(m, Request(m, p)) /\ Sheds(ClearInstall(m, p), Request(ClearInstall(m, p), p))
  BY <1>2, MarkGood, ShedsSelf
<1>4. QED
  BY <1>1, <1>2, <1>3, ShedsTwice

LEMMA DeoptGood ==
    ASSUME NEW m, Good(m), NEW p \in Protos, NEW n \in DeoptActions(m, p)
    PROVE  Sheds(m, n)
<1> DEFINE k == ClearInstall(m, p)
<1>1. PICK j \in {Request(k, p), MarkFailed(k, p)} : n = EvictBaseline(DisarmOSR(j, p), p)
  BY DEF DeoptActions
<1>2. Sheds(m, k) /\ Good(k)
  BY ClearInstallGood DEF Sheds
<1> HIDE DEF k
<1>3. Sheds(k, j) /\ Good(j)
  <2>1. Sheds(k, Request(k, p)) /\ Sheds(k, MarkFailed(k, p))
    BY <1>2, MarkGood
  <2>2. Sheds(k, j)
    BY <1>1, <2>1
  <2>3. QED
    BY <2>2 DEF Sheds
<1>4. Sheds(j, DisarmOSR(j, p)) /\ Good(DisarmOSR(j, p))
  BY <1>3, MarkGood DEF Sheds
<1>5. Sheds(DisarmOSR(j, p), n)
  BY <1>1, <1>4, EvictBaselineGood
<1>6. Sheds(m, j) /\ Sheds(j, n)
  BY <1>2, <1>3, <1>4, <1>5, ShedsTwice
<1>7. QED
  BY <1>6, ShedsTwice

(* A body remembers that its feedback was looked at. *)
LEMMA SeenGood ==
    ASSUME NEW m, Good(m), NEW c \in Bodies, NEW s \in 0..MaxFeedback
    PROVE  Good([m EXCEPT !.body[c].seen = s])
<1> DEFINE b == [m.body[c] EXCEPT !.seen = s]
           bo == [m.body EXCEPT ![c] = b]
           n == [m EXCEPT !.body = bo]
<1>0. m \in Manager /\ m.body[c] \in Body /\ m.body \in [Bodies -> Body]
  BY Fields DEF Good
<1>1. b \in Body /\ b.callees = m.body[c].callees
  BY <1>0 DEF Body
<1>2. [m EXCEPT !.body[c].seen = s] = n
  OBVIOUS
<1> HIDE DEF b
<1>3. bo \in [Bodies -> Body] /\ \A e \in Bodies : bo[e].callees = m.body[e].callees
  BY <1>0, <1>1
<1> HIDE DEF bo
<1>4. n \in Manager
  BY <1>0, <1>3 DEF Manager
<1>5. /\ n.made = m.made /\ n.compiled = m.compiled /\ n.dependents = m.dependents
      /\ SameEntries(m, n) /\ n.body = bo
  BY <1>0 DEF Manager, SameEntries
<1> HIDE DEF n
<1>6. BodiesAreMade(n) /\ CacheExact(n) /\ \A p \in Protos : EntryExact(n, p)
  BY <1>5 DEF Good, BodiesAreMade, CacheExact, Loaded, EntryExact, Follows, SameEntries
<1>7. IndexExact(n)
  <2>1. \A p \in Protos : m.compiled[p] # 0 => m.compiled[p] \in Bodies
    BY <1>0, Fields, TieringAssumption DEF Bodies
  <2>2. \A p \in Protos : m.compiled[p] # 0 =>
          n.body[m.compiled[p]].callees = m.body[m.compiled[p]].callees
    BY <1>3, <1>5, <2>1
  <2>3. QED
    BY <1>5, <2>2 DEF Good, IndexExact
<1>8. QED
  BY <1>2, <1>4, <1>6, <1>7 DEF Good

LEMMA RetiredGood ==
    ASSUME NEW m, Good(m), NEW p \in Protos, NEW c \in Bodies, NEW k \in Retired(m, p, c),
           feedback \in [Protos -> 0..MaxFeedback], epoch \in 0..MaxEpoch
    PROVE  Good(k)
<1> DEFINE n == QueueDependents(m, p)
           seen == [n EXCEPT !.body[c].seen = feedback[p]]
           cleared == ClearInstall(n, p)
<1>1. \/ k = m \/ k = seen \/ k = ClearPointers(Request(seen, p), p)
      \/ k \in Rejected(cleared, p) \/ k \in Compiled(n, p)
  BY DEF Retired
<1>2. Good(n)
  BY QueueGood DEF Sheds
<1> HIDE DEF n
<1>3. Good(seen) /\ Good(cleared)
  BY <1>2, SeenGood, ClearInstallGood DEF Sheds
<1> HIDE DEF seen, cleared
<1>4. Good(Request(seen, p))
  BY <1>3, MarkGood DEF Sheds
<1>5. Good(ClearPointers(Request(seen, p), p))
  BY <1>4, ClearPointersGood DEF Sheds
<1>6. k \in Rejected(cleared, p) => Good(k)
  BY <1>3, FailedGood DEF Sheds
<1>7. k \in Compiled(n, p) => Good(k)
  BY <1>2, CompiledGood DEF Publishes
<1>8. QED
  BY <1>1, <1>3, <1>5, <1>6, <1>7

LEMMA PromoteCalleeGood ==
    ASSUME NEW m, Good(m), NEW p \in Protos, NEW k \in PromoteCallee(m, p),
           feedback \in [Protos -> 0..MaxFeedback], epoch \in 0..MaxEpoch
    PROVE  Good(k)
<1> DEFINE n == CheckDependencies(m, p)
<1>1. k = n \/ k \in Failed(n, p) \/ k \in Compiled(n, p)
  BY DEF PromoteCallee
<1>2. Good(n)
  BY CheckGood DEF Sheds
<1> HIDE DEF n
<1>3. QED
  BY <1>1, <1>2, FailedGood, CompiledGood DEF Sheds, Publishes

-----------------------------------------------------------------------------
(* The stack. *)
Tier2Kinds == {"tier2", "native", "resumed"}

FrameOK(fr) ==
    /\ fr \in Frame
    /\ fr.code # 0 <=> fr.kind \in Tier2Kinds
    /\ fr.deferred => fr.kind \in {"tier2", "resumed"}

(* g is fr, but for what it did and whether it put off its refresh. *)
Kept(fr, g) == FrameOK(g) /\ g.proto = fr.proto /\ g.code = fr.code /\ g.kind = fr.kind

(* Neither a native frame nor one that was taken over is the lowest. *)
Based(fr, i) == fr.kind \in {"native", "resumed"} => i > 1

StackOK(s) ==
    /\ s \in Seq(Frame) /\ Len(s) <= MaxDepth
    /\ \A i \in 1..Len(s) : FrameOK(s[i]) /\ Based(s[i], i)

LEMMA KeptSelf ==
    ASSUME NEW fr, FrameOK(fr)
    PROVE  Kept(fr, fr)
  BY DEF Kept

LEMMA NewFrameOK ==
    ASSUME NEW p \in Protos, NEW kind \in Kinds, NEW c \in 0..MaxBodies, c # 0 <=> kind \in Tier2Kinds
    PROVE  /\ FrameOK(NewFrame(p, kind, c))
           /\ NewFrame(p, kind, c).kind = kind /\ NewFrame(p, kind, c).proto = p
           /\ NewFrame(p, kind, c).code = c
  BY DEF FrameOK, NewFrame, Frame

LEMMA EffectKept ==
    ASSUME NEW fr, FrameOK(fr), NEW e \in BOOLEAN
    PROVE  Kept(fr, [fr EXCEPT !.effect = e])
  BY DEF FrameOK, Frame, Kept

LEMMA ActedKept ==
    ASSUME NEW fr, FrameOK(fr)
    PROVE  Kept(fr, Acted(fr))
<1> DEFINE e == fr.effect \/ (/\ fr.proto \notin Replay
                              /\ fr.kind \notin {"interp", "deopted", "overflowed"})
<1>1. Acted(fr) = [fr EXCEPT !.effect = e]
  BY DEF Acted
<1>2. e \in BOOLEAN
  OBVIOUS
<1> HIDE DEF e
<1>3. QED
  BY <1>1, <1>2, EffectKept

LEMMA DeferredOK ==
    ASSUME NEW fr, FrameOK(fr), NEW d \in BOOLEAN, d => fr.kind \in {"tier2", "resumed"}
    PROVE  Kept(fr, [fr EXCEPT !.deferred = d])
  BY DEF FrameOK, Frame, Kept

LEMMA ResumedKept ==
    ASSUME NEW fr, FrameOK(fr), NEW callee, NEW m
    PROVE  Kept(fr, Resumed(fr, callee, m))
<1> DEFINE e == fr.effect \/ (callee.effect /\ callee.kind \in {"native", "resumed", "fallback"})
           d == fr.deferred \/ (/\ fr.kind = "tier2" /\ callee.kind # "native"
                                /\ ShouldRefresh(m, fr.proto, fr.code))
           g == [fr EXCEPT !.effect = e]
<1>1. Resumed(fr, callee, m) = [fr EXCEPT !.effect = e, !.deferred = d]
  BY DEF Resumed
<1>2. e \in BOOLEAN /\ d \in BOOLEAN /\ (d => fr.kind \in {"tier2", "resumed"})
  BY DEF FrameOK, Frame
<1> HIDE DEF e, d
<1>3. Kept(fr, g)
  BY <1>2, EffectKept
<1>4. Resumed(fr, callee, m) = [g EXCEPT !.deferred = d]
  BY <1>1 DEF FrameOK, Frame
<1>5. Kept(g, [g EXCEPT !.deferred = d])
  BY <1>2, <1>3, DeferredOK DEF Kept
<1> HIDE DEF g
<1>6. QED
  BY <1>3, <1>4, <1>5 DEF Kept

(* The operations on the stack. *)
LEMMA SubSeqOK ==
    ASSUME NEW s \in Seq(Frame), NEW k \in 1..Len(s)
    PROVE  /\ SubSeq(s, 1, k) \in Seq(Frame) /\ Len(SubSeq(s, 1, k)) = k
           /\ \A i \in 1..k : SubSeq(s, 1, k)[i] = s[i]
  OBVIOUS

LEMMA OneOrMore == \A n \in Nat : n > 0 => n = 1 \/ n > 1
  OBVIOUS

LEMMA ExceptOK ==
    ASSUME NEW s \in Seq(Frame), NEW k \in 1..Len(s), NEW g \in Frame
    PROVE  /\ [s EXCEPT ![k] = g] \in Seq(Frame) /\ Len([s EXCEPT ![k] = g]) = Len(s)
           /\ [s EXCEPT ![k] = g][k] = g
           /\ \A i \in 1..Len(s) : i # k => [s EXCEPT ![k] = g][i] = s[i]
  OBVIOUS

LEMMA Push ==
    ASSUME NEW s, StackOK(s), Len(s) < MaxDepth, NEW fr, FrameOK(fr), Based(fr, Len(s) + 1)
    PROVE  LET t == Append(s, fr)
           IN /\ StackOK(t) /\ Len(t) = Len(s) + 1 /\ t[Len(s) + 1] = fr
              /\ \A i \in 1..Len(s) : t[i] = s[i]
<1> DEFINE t == Append(s, fr)
<1>0. s \in Seq(Frame) /\ fr \in Frame /\ Len(s) \in Nat /\ MaxDepth \in Nat
  BY TieringAssumption DEF StackOK, FrameOK
<1>1. t \in Seq(Frame) /\ Len(t) = Len(s) + 1 /\ t[Len(s) + 1] = fr /\ \A i \in 1..Len(s) : t[i] = s[i]
  BY <1>0, AppendProperties
<1> HIDE DEF t
<1>2. StackOK(t)
  BY <1>0, <1>1 DEF StackOK
<1>3. QED
  BY <1>1, <1>2 DEF t

LEMMA Cut ==
    ASSUME NEW s, StackOK(s), NEW k \in 1..Len(s), NEW g, Kept(s[k], g)
    PROVE  LET t == [SubSeq(s, 1, k) EXCEPT ![k] = g]
           IN /\ StackOK(t) /\ Len(t) = k /\ t[k] = g
              /\ \A i \in 1..(k - 1) : t[i] = s[i]
<1> DEFINE t == [SubSeq(s, 1, k) EXCEPT ![k] = g]
<1>0. s \in Seq(Frame) /\ g \in Frame /\ Len(s) \in Nat /\ MaxDepth \in Nat /\ FrameOK(g)
  BY TieringAssumption DEF StackOK, FrameOK, Kept
<1> DEFINE u == SubSeq(s, 1, k)
<1>1. u \in Seq(Frame) /\ Len(u) = k /\ \A i \in 1..k : u[i] = s[i]
  BY <1>0, SubSeqOK
<1> HIDE DEF u
<1>2. t \in Seq(Frame) /\ Len(t) = k /\ t[k] = g /\ \A i \in 1..(k - 1) : t[i] = s[i]
  <2>1. t = [u EXCEPT ![k] = g] /\ k \in 1..Len(u)
    BY <1>0, <1>1 DEF u
  <2>2. /\ t \in Seq(Frame) /\ Len(t) = Len(u) /\ t[k] = g
        /\ \A j \in 1..Len(u) : j # k => t[j] = u[j]
    <3>1. /\ [u EXCEPT ![k] = g] \in Seq(Frame) /\ Len([u EXCEPT ![k] = g]) = Len(u)
          /\ [u EXCEPT ![k] = g][k] = g
          /\ \A i \in 1..Len(u) : i # k => [u EXCEPT ![k] = g][i] = u[i]
      <4>1. u \in Seq(Frame) /\ k \in 1..Len(u) /\ g \in Frame
        BY <1>0, <1>1, <2>1
      <4>2. QED
        BY <4>1, ExceptOK
    <3>2. QED
      BY <2>1, <3>1, Zenon
  <2>3. QED
    BY <1>0, <1>1, <2>1, <2>2
<1>3. Based(g, k)
  BY DEF Kept, StackOK, Based
<1> HIDE DEF t
<1>4. StackOK(t)
  BY <1>0, <1>2, <1>3 DEF StackOK
<1>5. QED
  BY <1>2, <1>4 DEF t

LEMMA Change ==
    ASSUME NEW s, StackOK(s), NEW k \in 1..Len(s), NEW g, FrameOK(g), Based(g, k)
    PROVE  LET t == [s EXCEPT ![k] = g]
           IN /\ StackOK(t) /\ Len(t) = Len(s) /\ t[k] = g
              /\ \A i \in 1..Len(s) : i # k => t[i] = s[i]
<1> DEFINE t == [s EXCEPT ![k] = g]
<1>0. s \in Seq(Frame) /\ g \in Frame /\ Len(s) \in Nat
  BY DEF StackOK, FrameOK
<1>1. t \in Seq(Frame) /\ Len(t) = Len(s) /\ t[k] = g /\ \A i \in 1..Len(s) : i # k => t[i] = s[i]
  BY <1>0
<1> HIDE DEF t
<1>2. StackOK(t)
  BY <1>0, <1>1 DEF StackOK
<1>3. QED
  BY <1>1, <1>2 DEF t

-----------------------------------------------------------------------------
(* The inductive invariant. *)
NoNative(s) == \A i \in 1..Len(s) : s[i].kind # "native"

(* Native frames are on top of the stack, each above a frame that calls it or
   that was taken over in the body of a namesake, and the code of one is published
   as long as its function has published code. *)
Split(s, k) == \A i \in 1..Len(s) : s[i].kind = "native" <=> i > k

Separate(s, i) ==
    ~CallsNamesake(s[i].proto) /\ Name[s[i - 1].proto] # Name[s[i].proto]

Linked(s, m, i) ==
    /\ s[i].proto \in Calls[s[i - 1].proto] \/ CallsNamesake(s[i - 1].proto)
    /\ Separate(s, i) => m.compiled[s[i].proto] \in {0, s[i].code}

NativeOK(s, m) ==
    /\ \E k \in 0..Len(s) : Split(s, k)
    /\ \A i \in 1..Len(s) : s[i].kind = "native" => Linked(s, m, i)

TaskOK(t, s) ==
    /\ t \in {Idle, Unwinding} \cup Promotion \cup Raising
    /\ t = Unwinding => s # <<>> /\ s[Len(s)].kind = "native"
    /\ t \notin {Idle, Unwinding} => NoNative(s)
    /\ t \in Promotion /\ t.kind = "call" => Len(s) < MaxDepth
    /\ t \in Promotion /\ t.kind = "osr" => s # <<>> /\ s[Len(s)].kind = "tier1"
    /\ t \in Raising => s # <<>>

Counters == feedback \in [Protos -> 0..MaxFeedback] /\ epoch \in 0..MaxEpoch

IInv ==
    /\ Good(mgr) /\ Counters
    /\ StackOK(stack) /\ NativeOK(stack, mgr) /\ TaskOK(task, stack)

(* The two action properties, as formulas of one step. *)
Valid(fr, m) == fr.proto \notin Assumes \/ m.body[fr.code].epoch = epoch'

Entered ==
    \A i \in 1..Len(stack') :
        stack'[i].kind = "tier2" /\ (i > Len(stack) \/ stack[i].kind # "tier2") => Valid(stack'[i], mgr')

Resumes ==
    \A i \in 2..Len(stack) :
        /\ stack[i].kind = "native" /\ ~CallsNamesake(stack[i].proto)
        /\ Name[stack[i - 1].proto] # Name[stack[i].proto]
        /\ i <= Len(stack') /\ stack'[i].kind = "resumed"
        => stack'[i].proto = stack[i].proto /\ stack'[i].code = stack[i].code

StepOK == IInv' /\ Entered /\ Resumes

LEMMA TaskKinds ==
    /\ Idle # Unwinding /\ Idle \notin Promotion /\ Idle \notin Raising
    /\ Unwinding \notin Promotion /\ Unwinding \notin Raising
    /\ \A t \in Promotion : t \notin Raising
    /\ \A c \in BOOLEAN : Raise(c) \in Raising
  BY DEF Idle, Unwinding, Promotion, Raising, Raise

LEMMA IdleOK == \A s : TaskOK(Idle, s)
  BY TaskKinds DEF TaskOK

LEMMA TopFacts ==
    ASSUME StackOK(stack), stack # <<>>
    PROVE  /\ Len(stack) \in Nat /\ Len(stack) > 0 /\ Len(stack) \in 1..Len(stack)
           /\ FrameOK(Top) /\ Based(Top, Len(stack)) /\ Top = stack[Len(stack)]
           /\ Top.proto \in Protos
<1>1. stack \in Seq(Frame) /\ Len(stack) \in Nat /\ Len(stack) > 0
  BY DEF StackOK
<1>2. Len(stack) \in 1..Len(stack)
  BY <1>1
<1>3. FrameOK(Top) /\ Based(Top, Len(stack))
  BY <1>2 DEF StackOK, Top
<1>4. QED
  BY <1>1, <1>2, <1>3 DEF Top, FrameOK, Frame

LEMMA NoNativeTop ==
    ASSUME StackOK(stack), NativeOK(stack, mgr), stack # <<>>, Top.kind # "native"
    PROVE  NoNative(stack)
<1>1. Len(stack) \in Nat /\ Len(stack) \in 1..Len(stack) /\ Top = stack[Len(stack)]
  BY TopFacts
<1>2. PICK k \in 0..Len(stack) : Split(stack, k)
  BY DEF NativeOK
<1>3. ~(Len(stack) > k)
  BY <1>1, <1>2 DEF Split
<1>4. ASSUME NEW i \in 1..Len(stack) PROVE ~(i > k)
  BY <1>1, <1>3
<1>5. QED
  BY <1>2, <1>4 DEF NoNative, Split

LEMMA Retop ==
    ASSUME StackOK(stack), stack # <<>>, NEW fr, FrameOK(fr), Based(fr, Len(stack))
    PROVE  LET t == WithTop(fr)
           IN /\ StackOK(t) /\ Len(t) = Len(stack) /\ t[Len(stack)] = fr
              /\ \A i \in 1..(Len(stack) - 1) : t[i] = stack[i]
<1> DEFINE t == WithTop(fr)
<1>0. stack \in Seq(Frame) /\ fr \in Frame /\ Len(stack) \in Nat /\ Len(stack) > 0
  BY DEF StackOK, FrameOK
<1> DEFINE u == SubSeq(stack, 1, Len(stack) - 1)
<1>1. u \in Seq(Frame) /\ Len(u) = Len(stack) - 1 /\ \A i \in 1..(Len(stack) - 1) : u[i] = stack[i]
  <2>1. CASE Len(stack) = 1
    <3>1. u = <<>>
      BY <2>1, SubSeqEmpty
    <3>2. QED
      BY <2>1, <3>1
  <2>2. CASE Len(stack) > 1
    <3>1. Len(stack) - 1 \in 1..Len(stack)
      BY <1>0, <2>2
    <3>2. QED
      BY <1>0, <3>1, SubSeqOK
  <2>3. Len(stack) = 1 \/ Len(stack) > 1
    BY <1>0, OneOrMore, Zenon
  <2> HIDE DEF u
  <2>4. QED
    BY <2>1, <2>2, <2>3
<1> HIDE DEF u
<1>2. t \in Seq(Frame) /\ Len(t) = Len(stack) /\ t[Len(stack)] = fr /\ \A i \in 1..(Len(stack) - 1) : t[i] = stack[i]
  BY <1>0, <1>1 DEF u, WithTop, Below
<1> HIDE DEF t
<1>3. StackOK(t)
  BY <1>0, <1>2 DEF StackOK
<1>4. QED
  BY <1>2, <1>3 DEF t

(* A step after which no native frame is left. *)
LEMMA CalmStep ==
    ASSUME Good(mgr'), Counters', StackOK(stack'), NoNative(stack'), TaskOK(task', stack'), Entered,
           \A i \in 1..Len(stack') : stack'[i].kind = "resumed" => stack[i].kind # "native"
    PROVE  StepOK
<1>1. NativeOK(stack', mgr')
  <2>1. Len(stack') \in 0..Len(stack') /\ \A i \in 1..Len(stack') : ~(i > Len(stack'))
    BY DEF StackOK
  <2>2. Split(stack', Len(stack'))
    BY <2>1 DEF Split, NoNative
  <2>3. QED
    BY <2>1, <2>2 DEF NativeOK, NoNative
<1>2. Resumes
  <2>1. Len(stack') \in Nat
    BY DEF StackOK
  <2>2. QED
    BY <2>1 DEF Resumes
<1>3. QED
  BY <1>1, <1>2 DEF StepOK, IInv, Counters

(* A step that leaves the stack alone. *)
LEMMA StayStep ==
    ASSUME IInv, Good(mgr'), Counters', stack' = stack, NoNative(stack), TaskOK(task', stack')
    PROVE  StepOK
<1>0. StackOK(stack) /\ Len(stack) \in Nat
  BY DEF IInv, StackOK
<1>1. StackOK(stack') /\ NoNative(stack')
  BY <1>0
<1>2. Entered
  BY <1>0 DEF Entered
<1>3. \A i \in 1..Len(stack') : stack'[i].kind = "resumed" => stack[i].kind # "native"
  BY DEF NoNative
<1>4. QED
  BY <1>1, <1>2, <1>3, CalmStep

(* A step that replaces the activation on top, which is not native. *)
LEMMA TopStep ==
    ASSUME IInv, Good(mgr'), Counters', task' = Idle, stack # <<>>, Top.kind # "native",
           NEW fr, FrameOK(fr), stack' = WithTop(fr),
           fr.kind # "native", fr.kind = "resumed" => Top.kind = "resumed",
           fr.kind = "tier2" => Top.kind = "tier2" \/ Valid(fr, mgr')
    PROVE  StepOK
<1> DEFINE n == Len(stack)
<1>1. /\ n \in Nat /\ n > 0 /\ FrameOK(Top) /\ Based(Top, n) /\ Top = stack[n] /\ StackOK(stack)
  BY TopFacts DEF IInv
<1>2. NoNative(stack)
  BY NoNativeTop DEF IInv
<1>3. Based(fr, n)
  BY <1>1 DEF Based
<1>4. /\ StackOK(stack') /\ Len(stack') = n /\ stack'[n] = fr
      /\ \A i \in 1..(n - 1) : stack'[i] = stack[i]
  BY <1>1, <1>3, Retop
<1> HIDE DEF n
<1>5. \A i \in 1..Len(stack') : i = n \/ i \in 1..(n - 1)
  BY <1>1, <1>4
<1>6. n = Len(stack)
  BY DEF n
<1>7. NoNative(stack')
  BY <1>2, <1>4, <1>5, <1>6 DEF NoNative
<1>8. Entered
  <2> SUFFICES ASSUME NEW i \in 1..Len(stack'), stack'[i].kind = "tier2",
                      i > n \/ stack[i].kind # "tier2"
               PROVE  Valid(stack'[i], mgr')
    BY <1>6 DEF Entered
  <2>1. i = n
    BY <1>1, <1>4, <1>5
  <2>2. QED
    BY <1>1, <1>4, <2>1
<1>9. \A i \in 1..Len(stack') : stack'[i].kind = "resumed" => stack[i].kind # "native"
  BY <1>2, <1>4, <1>6 DEF NoNative
<1>10. TaskOK(task', stack')
  BY IdleOK
<1>11. QED
  BY <1>4, <1>7, <1>8, <1>9, <1>10, CalmStep

(* A step that calls p through the VM. *)
LEMMA CallStep ==
    ASSUME IInv, Good(mgr'), Counters', task' = Idle, Len(stack) < MaxDepth, NoNative(stack),
           NEW p \in Protos, NEW kind \in {"interp", "tier1", "tier2"}, NEW c \in 0..MaxBodies,
           c # 0 <=> kind = "tier2", stack' = Called(p, kind, c),
           kind = "tier2" => p \notin Assumes \/ mgr'.body[c].epoch = epoch'
    PROVE  StepOK
<1> DEFINE n == Len(stack)
           fr == NewFrame(p, kind, c)
           s == IF stack = <<>> THEN stack ELSE WithTop(Acted(Top))
<1>0. StackOK(stack) /\ n \in Nat /\ MaxDepth \in Nat
  BY TieringAssumption DEF IInv, StackOK
<1>1. FrameOK(fr) /\ fr.kind = kind /\ fr.proto = p /\ fr.code = c
  BY NewFrameOK DEF Kinds, Tier2Kinds
<1>2. StackOK(s) /\ Len(s) = n /\ \A i \in 1..n : s[i].kind = stack[i].kind
  <2>1. CASE stack = <<>>
    BY <1>0, <2>1
  <2>2. CASE stack # <<>>
    <3>1. /\ FrameOK(Top) /\ Based(Top, n) /\ Top = stack[n] /\ Kept(Top, Acted(Top)) /\ n > 0
      BY <1>0, <2>2, TopFacts, ActedKept
    <3>2. FrameOK(Acted(Top)) /\ Based(Acted(Top), n) /\ Acted(Top).kind = stack[n].kind
      BY <3>1 DEF Kept, Based
    <3>3. /\ StackOK(s) /\ Len(s) = n /\ s[n] = Acted(Top)
          /\ \A i \in 1..(n - 1) : s[i] = stack[i]
      BY <1>0, <2>2, <3>2, Retop
    <3> HIDE DEF s, n
    <3>4. ASSUME NEW i \in 1..n PROVE s[i].kind = stack[i].kind
      <4>1. i = n \/ i \in 1..(n - 1)
        BY <1>0
      <4>2. QED
        BY <3>2, <3>3, <4>1
    <3>5. QED
      BY <3>3, <3>4
  <2>3. QED
    BY <2>1, <2>2
<1>3. stack' = Append(s, fr)
  BY DEF Called
<1>4. Based(fr, Len(s) + 1)
  BY <1>1 DEF Based
<1> HIDE DEF s, fr
<1>5. /\ StackOK(stack') /\ Len(stack') = n + 1 /\ stack'[n + 1] = fr
      /\ \A i \in 1..n : stack'[i].kind = stack[i].kind
  <2>1. Len(s) < MaxDepth
    BY <1>2
  <2> HIDE DEF n
  <2>2. /\ StackOK(stack') /\ Len(stack') = Len(s) + 1 /\ stack'[Len(s) + 1] = fr
        /\ \A i \in 1..Len(s) : stack'[i] = s[i]
    <3>1. LET t == Append(s, fr)
          IN /\ StackOK(t) /\ Len(t) = Len(s) + 1 /\ t[Len(s) + 1] = fr
             /\ \A i \in 1..Len(s) : t[i] = s[i]
      BY <1>1, <1>2, <1>4, <2>1, Push, Zenon
    <3>2. QED
      BY <1>3, <3>1, Zenon
  <2>3. QED
    BY <1>2, <2>2
<1>6. n = Len(stack)
  OBVIOUS
<1> HIDE DEF n
<1>7. \A i \in 1..Len(stack') : i = n + 1 \/ i \in 1..n
  BY <1>0, <1>5
<1>8. NoNative(stack')
  BY <1>1, <1>5, <1>6, <1>7 DEF NoNative
<1>9. Entered
  <2> SUFFICES ASSUME NEW i \in 1..Len(stack'), stack'[i].kind = "tier2",
                      i > n \/ stack[i].kind # "tier2"
               PROVE  Valid(stack'[i], mgr')
    BY <1>6 DEF Entered
  <2>1. i = n + 1
    BY <1>0, <1>5, <1>7
  <2>2. QED
    BY <1>1, <1>5, <2>1 DEF Valid
<1>10. \A i \in 1..Len(stack') : stack'[i].kind = "resumed" => stack[i].kind # "native"
  BY <1>1, <1>5, <1>6, <1>7 DEF NoNative
<1>11. TaskOK(task', stack')
  BY IdleOK
<1>12. QED
  BY <1>5, <1>8, <1>9, <1>10, <1>11, CalmStep

(* A step that cuts the stack to its lowest k frames, none of them native. *)
LEMMA CutStep ==
    ASSUME IInv, Good(mgr'), Counters', NEW k \in 1..Len(stack),
           \A i \in 1..k : stack[i].kind # "native",
           NEW g, Kept(stack[k], g), stack' = [SubSeq(stack, 1, k) EXCEPT ![k] = g],
           task' \in {Idle} \cup Raising
    PROVE  StepOK
<1>0. StackOK(stack) /\ Len(stack) \in Nat
  BY DEF IInv, StackOK
<1>1. /\ StackOK(stack') /\ Len(stack') = k /\ stack'[k] = g
      /\ \A i \in 1..(k - 1) : stack'[i] = stack[i]
  <2>1. LET t == [SubSeq(stack, 1, k) EXCEPT ![k] = g]
        IN /\ StackOK(t) /\ Len(t) = k /\ t[k] = g
           /\ \A i \in 1..(k - 1) : t[i] = stack[i]
    BY <1>0, Cut
  <2>2. QED
    BY <2>1, Zenon
<1>2. \A i \in 1..k : stack'[i].kind = stack[i].kind
  <2> SUFFICES ASSUME NEW i \in 1..k PROVE stack'[i].kind = stack[i].kind
    OBVIOUS
  <2>1. i = k \/ i \in 1..(k - 1)
    BY <1>0
  <2>2. QED
    BY <1>1, <2>1 DEF Kept
<1>3. NoNative(stack')
  BY <1>1, <1>2 DEF NoNative
<1>4. Entered
  <2> SUFFICES ASSUME NEW i \in 1..Len(stack'), stack'[i].kind = "tier2",
                      i > Len(stack) \/ stack[i].kind # "tier2"
               PROVE  FALSE
    BY DEF Entered
  <2>1. ~(i > Len(stack))
    BY <1>0, <1>1
  <2>2. QED
    BY <1>1, <1>2, <2>1
<1>5. TaskOK(task', stack')
  <2>1. stack' # <<>>
    BY <1>0, <1>1
  <2>2. QED
    BY <1>3, <2>1, TaskKinds DEF TaskOK
<1>6. QED
  BY <1>1, <1>2, <1>3, <1>4, <1>5, CalmStep

(* A step that empties the stack. *)
LEMMA EmptyStep ==
    ASSUME IInv, Good(mgr'), Counters', stack' = <<>>, task' = Idle
    PROVE  StepOK
<1>1. StackOK(stack') /\ NoNative(stack') /\ Len(stack') = 0
  BY TieringAssumption DEF StackOK, NoNative
<1>2. Entered
  BY <1>1 DEF Entered
<1>3. TaskOK(task', stack')
  BY IdleOK
<1>4. QED
  BY <1>1, <1>2, <1>3, CalmStep
-----------------------------------------------------------------------------
(* The calls through the VM. *)
LEMMA CallFacts ==
    ASSUME IInv, NEW p, MayCall(p)
    PROVE  NoNative(stack) /\ task = Idle /\ Len(stack) < MaxDepth
<1>1. CASE stack = <<>>
  BY <1>1 DEF NoNative, MayCall
<1>2. CASE stack # <<>>
  BY <1>2, NoNativeTop DEF IInv, MayCall
<1>3. QED
  BY <1>1, <1>2

LEMMA PreparedFacts ==
    ASSUME IInv, NEW p \in Protos
    PROVE  LET m == Prepare(mgr, p)
           IN /\ Good(m) /\ m.compiled[p] \in 0..MaxBodies
              /\ m.compiled[p] # 0 => p \notin Assumes \/ m.body[m.compiled[p]].epoch = epoch
<1> DEFINE m == Prepare(mgr, p)
<1>1. Good(m) /\ ~Stale(m, p)
  BY PrepareGood DEF IInv, Sheds
<1> HIDE DEF m
<1>2. m.compiled[p] \in 0..MaxBodies
  BY <1>1, Fields DEF Good
<1>3. QED
  BY <1>1, <1>2 DEF Stale, m

LEMMA CallCompiledStep ==
    ASSUME IInv, NEW p \in Protos, CallCompiled(p)
    PROVE  StepOK
<1> DEFINE m == Prepare(mgr, p)
<1>1. /\ Good(m) /\ m.compiled[p] \in 0..MaxBodies
      /\ m.compiled[p] # 0 => p \notin Assumes \/ m.body[m.compiled[p]].epoch = epoch
  BY PreparedFacts
<1>2. NoNative(stack) /\ task = Idle /\ Len(stack) < MaxDepth
  BY CallFacts DEF CallCompiled
<1>3. /\ mgr' = m /\ m.compiled[p] # 0 /\ stack' = Called(p, "tier2", m.compiled[p])
      /\ feedback' = feedback /\ epoch' = epoch /\ task' = task
  BY DEF CallCompiled
<1> HIDE DEF m
<1>4. Good(mgr') /\ Counters' /\ task' = Idle
  BY <1>1, <1>2, <1>3 DEF Counters, IInv
<1>5. p \notin Assumes \/ mgr'.body[m.compiled[p]].epoch = epoch'
  BY <1>1, <1>3
<1>6. QED
  BY <1>1, <1>2, <1>3, <1>4, <1>5, CallStep

(* A call that does not run in Tier 2. *)
LEMMA PlainCallStep ==
    ASSUME IInv, NEW p \in Protos, MayCall(p), Good(mgr'), NEW kind \in {"interp", "tier1"},
           stack' = Called(p, kind, 0), feedback' = feedback, epoch' = epoch, task' = task
    PROVE  StepOK
<1>1. NoNative(stack) /\ task = Idle /\ Len(stack) < MaxDepth
  BY CallFacts
<1>2. Counters' /\ task' = Idle /\ 0 \in 0..MaxBodies
  BY <1>1, TieringAssumption DEF Counters, IInv
<1>3. QED
  BY <1>1, <1>2, CallStep

LEMMA CallInterpretedStep ==
    ASSUME IInv, NEW p \in Protos, CallInterpreted(p)
    PROVE  StepOK
<1>1. Good(mgr')
  BY PreparedFacts DEF CallInterpreted
<1>2. QED
  BY <1>1, PlainCallStep DEF CallInterpreted

LEMMA CallTier1Step ==
    ASSUME IInv, NEW p \in Protos, CallTier1(p)
    PROVE  StepOK
<1>1. Good(mgr')
  BY PreparedFacts, UseTier1Good DEF CallTier1, Sheds
<1>2. QED
  BY <1>1, PlainCallStep DEF CallTier1

LEMMA LoopCalleesAreProtos ==
    ASSUME NEW p \in Protos
    PROVE  LoopCallees(p) \in SUBSET Protos
  BY TieringAssumption DEF LoopCallees

LEMMA CallPromotedStep ==
    ASSUME IInv, NEW p \in Protos, CallPromoted(p)
    PROVE  StepOK
<1>1. Good(mgr') /\ Counters'
  BY PreparedFacts DEF CallPromoted, Counters, IInv
<1>2. NoNative(stack) /\ Len(stack) < MaxDepth /\ stack' = stack
  BY CallFacts DEF CallPromoted
<1>3. task' \in Promotion /\ task'.kind = "call"
  BY LoopCalleesAreProtos DEF CallPromoted, Promotion
<1>4. TaskOK(task', stack')
  BY <1>2, <1>3, TaskKinds DEF TaskOK
<1>5. QED
  BY <1>1, <1>2, <1>4, StayStep

LEMMA FireOSRStep ==
    ASSUME IInv, FireOSR
    PROVE  StepOK
<1>1. Good(mgr') /\ Counters' /\ stack' = stack /\ stack # <<>>
  BY DEF FireOSR, Counters, IInv, Running
<1>2. NoNative(stack) /\ Top.kind = "tier1" /\ Top = stack[Len(stack)] /\ Top.proto \in Protos
  BY <1>1, NoNativeTop, TopFacts DEF IInv, FireOSR
<1>3. task' \in Promotion /\ task'.kind = "osr"
  BY <1>2, LoopCalleesAreProtos DEF FireOSR, Promotion
<1>4. TaskOK(task', stack')
  BY <1>1, <1>2, <1>3, TaskKinds DEF TaskOK
<1>5. QED
  BY <1>1, <1>2, <1>4, StayStep

LEMMA EnsureCalleeStep ==
    ASSUME IInv, NEW q \in Protos, EnsureCallee(q)
    PROVE  StepOK
<1> DEFINE m == CheckDependencies(mgr, q)
<1>1. Good(m) /\ Good(mgr)
  BY CheckGood DEF IInv, Sheds
<1>2. \/ mgr' = mgr \/ mgr' = m \/ mgr' \in Failed(m, q) \/ mgr' \in Compiled(m, q)
  BY DEF EnsureCallee
<1> HIDE DEF m
<1>3. Good(mgr')
  BY <1>1, <1>2, FailedGood, CompiledGood DEF Sheds, Publishes, IInv, Counters
<1>4. Counters' /\ stack' = stack
  BY DEF EnsureCallee, Counters, IInv
<1>5. task \in Promotion /\ task' = [task EXCEPT !.todo = @ \ {q}]
  BY DEF EnsureCallee
<1>6. task' \in Promotion /\ task'.kind = task.kind
  BY <1>5 DEF Promotion
<1>7. TaskOK(task, stack) /\ NoNative(stack)
  BY <1>5, TaskKinds DEF IInv, TaskOK
<1>8. TaskOK(task', stack')
  BY <1>4, <1>5, <1>6, <1>7, TaskKinds DEF TaskOK
<1>9. QED
  BY <1>3, <1>4, <1>7, <1>8, StayStep

-----------------------------------------------------------------------------
(* The ends of a promotion. *)

(* What a compilation by the promotion of p publishes. *)
LEMMA PublishedFacts ==
    ASSUME NEW m, Good(m), Counters, NEW p \in Protos, NEW n \in Compiled(m, p)
    PROVE  /\ Good(n) /\ n.compiled[p] \in 0..MaxBodies /\ n.compiled[p] # 0
           /\ n.body[n.compiled[p]].epoch = epoch
<1>1. Publishes(m, n, p)
  BY CompiledGood DEF Counters
<1>2. m \in Manager /\ n \in Manager
  BY <1>1 DEF Good, Publishes
<1>3. m.made \in 0..MaxBodies /\ n.made \in 0..MaxBodies
  BY <1>2, Fields
<1>4. QED
  BY <1>1, <1>3, TieringAssumption DEF Publishes

LEMMA PromotionFacts ==
    ASSUME IInv, NEW kind \in {"call", "osr"}, Promoting(kind)
    PROVE  /\ task.proto \in Protos /\ NoNative(stack)
           /\ kind = "call" => Len(stack) < MaxDepth
           /\ kind = "osr" => stack # <<>> /\ Top.kind = "tier1"
<1>1. task \in Promotion /\ task.kind = kind
  BY DEF Promoting
<1>2. task.proto \in Protos
  BY <1>1 DEF Promotion
<1>3. QED
  BY <1>1, <1>2, TaskKinds DEF IInv, TaskOK, Top

LEMMA PromoteTier2Step ==
    ASSUME IInv, PromoteTier2
    PROVE  StepOK
<1> DEFINE p == task.proto
           m == CompileBaseline(mgr, p)
<1>1. p \in Protos /\ NoNative(stack) /\ Len(stack) < MaxDepth
  BY PromotionFacts DEF PromoteTier2
<1>2. Good(m)
  BY <1>1, CompileBaselineGood DEF IInv, Sheds
<1>3. Counters /\ Counters' /\ task' = Idle /\ epoch' = epoch /\ 0 \in 0..MaxBodies
  BY TieringAssumption DEF IInv, Counters, PromoteTier2
<1>4. \/ mgr' \in Compiled(m, p) /\ stack' = Called(p, "tier2", mgr'.compiled[p])
      \/ /\ mgr' \in {m} \cup {DisableFeedback(k, p) : k \in Failed(m, p)}
         /\ stack' = Called(p, "tier1", 0)
  BY DEF PromoteTier2
<1> HIDE DEF m, p
<1>5. CASE mgr' \in Compiled(m, p) /\ stack' = Called(p, "tier2", mgr'.compiled[p])
  <2>1. /\ Good(mgr') /\ mgr'.compiled[p] \in 0..MaxBodies /\ mgr'.compiled[p] # 0
        /\ mgr'.body[mgr'.compiled[p]].epoch = epoch'
    BY <1>1, <1>2, <1>3, <1>5, PublishedFacts
  <2>2. QED
    BY <1>1, <1>3, <1>5, <2>1, CallStep
<1>6. CASE /\ mgr' \in {m} \cup {DisableFeedback(k, p) : k \in Failed(m, p)}
           /\ stack' = Called(p, "tier1", 0)
  <2>1. Good(mgr')
    BY <1>1, <1>2, <1>6, FailedGood, DisableFeedbackGood DEF Sheds
  <2>2. QED
    BY <1>1, <1>3, <1>6, <2>1, CallStep
<1>7. QED
  BY <1>4, <1>5, <1>6

LEMMA HandleOSRStep ==
    ASSUME IInv, HandleOSR
    PROVE  StepOK
<1> DEFINE p == task.proto
           Off(m) == CompileBaseline(DisarmOSR(m, p), p)
<1>1. p \in Protos /\ NoNative(stack) /\ stack # <<>> /\ Top.kind = "tier1"
  BY PromotionFacts DEF HandleOSR
<1>2. Good(mgr) /\ Counters /\ Counters' /\ task' = Idle /\ epoch' = epoch
  BY DEF IInv, Counters, HandleOSR
<1>3. \/ mgr' \in Compiled(mgr, p) /\ stack' = WithTop(NewFrame(p, "tier2", mgr'.compiled[p]))
      \/ /\ mgr' \in {Off(mgr)} \cup {Off(DisableFeedback(k, p)) : k \in Failed(mgr, p)}
         /\ stack' = stack
  BY DEF HandleOSR
<1>4. ASSUME NEW m, Good(m) PROVE Good(Off(m))
  BY <1>1, <1>4, MarkGood, CompileBaselineGood DEF Sheds
<1> HIDE DEF p, Off
<1>5. CASE mgr' \in Compiled(mgr, p) /\ stack' = WithTop(NewFrame(p, "tier2", mgr'.compiled[p]))
  <2> DEFINE c == mgr'.compiled[p]
             fr == NewFrame(p, "tier2", c)
  <2>1. Good(mgr') /\ c \in 0..MaxBodies /\ c # 0 /\ mgr'.body[c].epoch = epoch'
    BY <1>1, <1>2, <1>5, PublishedFacts
  <2>2. stack' = WithTop(fr)
    BY <1>5
  <2> HIDE DEF c
  <2>3. FrameOK(fr) /\ fr.kind = "tier2" /\ fr.code = c
    BY <1>1, <2>1, NewFrameOK DEF Kinds, Tier2Kinds
  <2> HIDE DEF fr
  <2>4. Valid(fr, mgr')
    BY <2>1, <2>3 DEF Valid
  <2>5. QED
    BY <1>1, <1>2, <2>1, <2>2, <2>3, <2>4, TopStep
<1>6. CASE /\ mgr' \in {Off(mgr)} \cup {Off(DisableFeedback(k, p)) : k \in Failed(mgr, p)}
           /\ stack' = stack
  <2>1. Good(mgr')
    <3>1. ASSUME NEW k \in Failed(mgr, p) PROVE Good(Off(DisableFeedback(k, p)))
      BY <1>1, <1>2, <1>4, <3>1, FailedGood, DisableFeedbackGood DEF Sheds
    <3>2. QED
      BY <1>2, <1>4, <1>6, <3>1
  <2>2. QED
    BY <1>1, <1>2, <1>6, <2>1, IdleOK, StayStep
<1>7. QED
  BY <1>3, <1>5, <1>6

-----------------------------------------------------------------------------
(* The exits of running code. *)

(* A step that starts the activation on top again in the interpreter. *)
LEMMA RestartStep ==
    ASSUME IInv, Good(mgr'), Counters', task' = Idle, stack # <<>>, Top.kind # "native",
           NEW kind \in {"interp", "overflowed", "deopted"},
           stack' = WithTop(NewFrame(Top.proto, kind, 0))
    PROVE  StepOK
<1> DEFINE fr == NewFrame(Top.proto, kind, 0)
<1>1. Top.proto \in Protos /\ 0 \in 0..MaxBodies
  BY TopFacts, TieringAssumption DEF IInv
<1>2. FrameOK(fr) /\ fr.kind = kind
  BY <1>1, NewFrameOK DEF Kinds, Tier2Kinds
<1> HIDE DEF fr
<1>3. stack' = WithTop(fr)
  BY DEF fr
<1>4. QED
  BY <1>2, <1>3, TopStep

(* A step after which the activation on top is the one that was there. *)
LEMMA KeepTopStep ==
    ASSUME IInv, Good(mgr'), Counters', task' = Idle, stack # <<>>, Top.kind # "native",
           NEW fr, Kept(Top, fr), stack' = WithTop(fr)
    PROVE  StepOK
  BY TopStep DEF Kept

LEMMA RunningFacts ==
    ASSUME IInv, Running
    PROVE  /\ stack # <<>> /\ task = Idle /\ Top.proto \in Protos /\ FrameOK(Top) /\ Kept(Top, Acted(Top))
           /\ Good(mgr) /\ Counters
  BY TopFacts, ActedKept DEF IInv, Running

LEMMA Tier1DeoptStep ==
    ASSUME IInv, Tier1Deopt
    PROVE  StepOK
<1> DEFINE p == Top.proto
           m == EvictBaseline(mgr, p)
<1>1. stack # <<>> /\ task = Idle /\ p \in Protos /\ Top.kind = "tier1" /\ Good(mgr)
  BY RunningFacts DEF Tier1Deopt
<1>2. Good(m) /\ Good(CompileBaseline(m, p))
  BY <1>1, EvictBaselineGood, CompileBaselineGood DEF Sheds
<1>3. Counters' /\ task' = Idle
  BY <1>1 DEF Tier1Deopt, IInv, Counters
<1>4. \/ mgr' = m /\ stack' = WithTop(NewFrame(p, "overflowed", 0))
      \/ mgr' = CompileBaseline(m, p) /\ stack' = stack
  BY DEF Tier1Deopt
<1>5. NoNative(stack)
  BY <1>1, NoNativeTop DEF IInv
<1> HIDE DEF m
<1>6. Good(mgr')
  BY <1>2, <1>4
<1>7. CASE stack' = WithTop(NewFrame(p, "overflowed", 0))
  BY <1>1, <1>3, <1>6, <1>7, RestartStep
<1>8. CASE stack' = stack
  BY <1>3, <1>5, <1>6, <1>8, IdleOK, StayStep
<1>9. QED
  BY <1>4, <1>7, <1>8

LEMMA SideExitStep ==
    ASSUME IInv, SideExit
    PROVE  StepOK
<1> DEFINE d == Acted(Top).deferred \/ ShouldRefresh(mgr, Top.proto, Top.code)
           fr == [Acted(Top) EXCEPT !.deferred = d]
<1>1. /\ stack # <<>> /\ task = Idle /\ Top.proto \in Protos /\ Top.kind = "tier2" /\ Good(mgr)
      /\ Kept(Top, Acted(Top))
  BY RunningFacts DEF SideExit
<1>2. Good(mgr') /\ Counters' /\ task' = Idle
  BY <1>1, ProfiledGood DEF SideExit, IInv, Counters, Sheds
<1>3. stack' = WithTop(fr)
  BY DEF SideExit
<1>4. d \in BOOLEAN /\ FrameOK(Acted(Top)) /\ Acted(Top).kind = "tier2"
  BY <1>1 DEF Kept, FrameOK, Frame
<1> HIDE DEF d
<1>5. Kept(Acted(Top), fr)
  BY <1>4, DeferredOK
<1> HIDE DEF fr
<1>6. Kept(Top, fr)
  BY <1>1, <1>5 DEF Kept
<1>7. QED
  BY <1>1, <1>2, <1>3, <1>6, KeepTopStep

LEMMA ResumedExitStep ==
    ASSUME IInv, ResumedExit
    PROVE  StepOK
<1> DEFINE p == Top.proto
           a == Acted(Top)
<1>1. /\ stack # <<>> /\ task = Idle /\ p \in Protos /\ Top.kind = "resumed" /\ Good(mgr)
      /\ Kept(Top, a) /\ Counters
  BY RunningFacts DEF ResumedExit
<1>2. Counters' /\ task' = Idle
  BY <1>1 DEF ResumedExit, IInv, Counters
<1>3. \/ mgr' = mgr /\ stack' = WithTop(a)
      \/ mgr' \in Rejected(mgr, p) /\ stack' = WithTop([a EXCEPT !.deferred = TRUE])
      \/ mgr' \in Compiled(mgr, p) /\ stack' = WithTop([a EXCEPT !.code = mgr'.compiled[p]])
  BY DEF ResumedExit
<1>4. FrameOK(a) /\ a.kind = "resumed"
  BY <1>1 DEF Kept
<1> HIDE DEF p, a
<1>5. CASE mgr' = mgr /\ stack' = WithTop(a)
  BY <1>1, <1>2, <1>5, KeepTopStep
<1>6. CASE mgr' \in Rejected(mgr, p) /\ stack' = WithTop([a EXCEPT !.deferred = TRUE])
  <2> DEFINE fr == [a EXCEPT !.deferred = TRUE]
  <2>1. Kept(a, fr)
    BY <1>4, DeferredOK
  <2> HIDE DEF fr
  <2>2. Kept(Top, fr) /\ stack' = WithTop(fr) /\ Good(mgr')
    BY <1>1, <1>6, <2>1, FailedGood DEF Kept, fr, Sheds
  <2>3. QED
    BY <1>1, <1>2, <2>2, KeepTopStep
<1>7. CASE mgr' \in Compiled(mgr, p) /\ stack' = WithTop([a EXCEPT !.code = mgr'.compiled[p]])
  <2> DEFINE c == mgr'.compiled[p]
             fr == [a EXCEPT !.code = c]
  <2>1. Good(mgr') /\ c \in 0..MaxBodies /\ c # 0
    BY <1>1, <1>7, PublishedFacts
  <2>2. stack' = WithTop(fr)
    BY <1>7
  <2> HIDE DEF c
  <2>3. FrameOK(fr) /\ fr.kind = "resumed"
    BY <1>4, <2>1 DEF FrameOK, Frame, Tier2Kinds
  <2> HIDE DEF fr
  <2>4. QED
    BY <1>1, <1>2, <2>1, <2>2, <2>3, TopStep
<1>8. QED
  BY <1>3, <1>5, <1>6, <1>7

LEMMA DeoptStep ==
    ASSUME IInv, Deopt
    PROVE  StepOK
<1>1. stack # <<>> /\ task = Idle /\ Top.proto \in Protos /\ Top.kind = "tier2" /\ Good(mgr)
  BY RunningFacts DEF Deopt
<1>2. Counters' /\ task' = Idle
  BY <1>1 DEF Deopt, IInv, Counters
<1>3. PICK m \in DeoptActions(mgr, Top.proto) :
        /\ mgr' \in {m, CompileBaseline(m, Top.proto)}
        /\ \E kind \in {"interp", "deopted"} : stack' = WithTop(NewFrame(Top.proto, kind, 0))
  BY DEF Deopt
<1>4. Good(mgr')
  BY <1>1, <1>3, DeoptGood, CompileBaselineGood DEF Sheds
<1>5. QED
  BY <1>1, <1>2, <1>3, <1>4, RestartStep

(* The activation on top ends; the one below it, which is not native, goes on. *)
LEMMA LeaveStep ==
    ASSUME IInv, Good(mgr'), Counters', stack # <<>>, Len(stack) # 1, Top.kind # "native",
           NEW g, Kept(stack[Len(stack) - 1], g), stack' = [Below EXCEPT ![Len(stack) - 1] = g],
           task' \in {Idle} \cup Raising
    PROVE  StepOK
<1>1. NoNative(stack) /\ Len(stack) \in Nat /\ Len(stack) > 0
  BY NoNativeTop, TopFacts DEF IInv
<1>2. PICK k : k = Len(stack) - 1
  OBVIOUS
<1>3. k \in 1..Len(stack) /\ \A i \in 1..k : i \in 1..Len(stack)
  BY <1>1, <1>2
<1>4. \A i \in 1..k : stack[i].kind # "native"
  BY <1>1, <1>3 DEF NoNative
<1>5. Kept(stack[k], g) /\ stack' = [SubSeq(stack, 1, k) EXCEPT ![k] = g]
  BY <1>2 DEF Below
<1>6. QED
  BY <1>3, <1>4, <1>5, CutStep

LEMMA BelowTop ==
    ASSUME StackOK(stack), stack # <<>>, Len(stack) # 1
    PROVE  /\ Len(stack) - 1 \in 1..Len(stack) /\ Below[Len(stack) - 1] = stack[Len(stack) - 1]
           /\ FrameOK(stack[Len(stack) - 1]) /\ Len(stack) > 1
<1>1. stack \in Seq(Frame) /\ Len(stack) \in Nat /\ Len(stack) > 0
  BY TopFacts DEF StackOK
<1>2. PICK k : k = Len(stack) - 1
  OBVIOUS
<1>3. k \in 1..Len(stack) /\ Len(stack) > 1
  BY <1>1, <1>2
<1>4. SubSeq(stack, 1, k)[k] = stack[k] /\ FrameOK(stack[k])
  BY <1>1, <1>3, SubSeqOK DEF StackOK
<1>5. QED
  BY <1>2, <1>3, <1>4 DEF Below

(* The same, when the one below inherits that something was done. *)
LEMMA LeaveEffectStep ==
    ASSUME IInv, Good(mgr'), Counters', stack # <<>>, Len(stack) # 1, Top.kind # "native",
           NEW e, stack' = [Below EXCEPT ![Len(stack) - 1].effect = @ \/ e],
           task' \in {Idle} \cup Raising
    PROVE  StepOK
<1> DEFINE k == Len(stack) - 1
           d == Below[k].effect \/ e
           g == [Below[k] EXCEPT !.effect = d]
<1>1. stack' = [Below EXCEPT ![k] = g]
  OBVIOUS
<1>2. Below[k] = stack[k] /\ FrameOK(stack[k])
  BY BelowTop DEF IInv
<1>3. d \in BOOLEAN
  OBVIOUS
<1> HIDE DEF d
<1>4. Kept(stack[k], g)
  BY <1>2, <1>3, EffectKept
<1> HIDE DEF g
<1>5. QED
  BY <1>1, <1>4, LeaveStep

LEMMA NotOne == \A n \in Nat : n > 1 => n # 1
  OBVIOUS

LEMMA FallbackOK ==
    ASSUME NEW fr, FrameOK(fr), NEW p \in Protos
    PROVE  LET g == [fr EXCEPT !.closure = p, !.kind = "fallback", !.code = 0, !.deferred = FALSE]
           IN FrameOK(g) /\ g.kind = "fallback"
<1> DEFINE g == [fr EXCEPT !.closure = p, !.kind = "fallback", !.code = 0, !.deferred = FALSE]
<1>1. fr \in Frame /\ 0 \in 0..MaxBodies
  BY TieringAssumption DEF FrameOK
<1>2. g \in Frame /\ g.kind = "fallback" /\ g.code = 0 /\ g.deferred = FALSE
  BY <1>1 DEF Frame, Kinds
<1> HIDE DEF g
<1>3. FrameOK(g)
  BY <1>2 DEF FrameOK, Tier2Kinds
<1>4. QED
  BY <1>2, <1>3 DEF g

LEMMA ResumedDeoptStep ==
    ASSUME IInv, ResumedDeopt
    PROVE  StepOK
<1> DEFINE p == Top.proto
<1>1. /\ stack # <<>> /\ task = Idle /\ p \in Protos /\ Top.kind = "resumed" /\ Good(mgr)
      /\ FrameOK(Top) /\ Based(Top, Len(stack))
  BY RunningFacts, TopFacts DEF ResumedDeopt, IInv
<1>2. Good(mgr') /\ Counters'
  BY <1>1, DeoptGood DEF ResumedDeopt, IInv, Counters, Sheds
<1>3. \/ /\ stack' = WithTop([Top EXCEPT !.closure = p, !.kind = "fallback",
                                         !.code = 0, !.deferred = FALSE])
         /\ task' = task
      \/ /\ stack' = [Below EXCEPT ![Len(stack) - 1].effect = @ \/ Top.effect]
         /\ task' = Raise(FALSE)
  BY DEF ResumedDeopt
<1>4. CASE /\ stack' = WithTop([Top EXCEPT !.closure = p, !.kind = "fallback",
                                           !.code = 0, !.deferred = FALSE])
           /\ task' = task
  <2> DEFINE fr == [Top EXCEPT !.closure = p, !.kind = "fallback", !.code = 0, !.deferred = FALSE]
  <2>1. FrameOK(fr) /\ fr.kind = "fallback"
    BY <1>1, FallbackOK
  <2>2. stack' = WithTop(fr)
    BY <1>4
  <2> HIDE DEF fr
  <2>3. QED
    BY <1>1, <1>2, <1>4, <2>1, <2>2, TopStep
<1>5. CASE /\ stack' = [Below EXCEPT ![Len(stack) - 1].effect = @ \/ Top.effect]
           /\ task' = Raise(FALSE)
  <2>1. Len(stack) # 1 /\ task' \in {Idle} \cup Raising
    <3>1. Len(stack) > 1 /\ Len(stack) \in Nat
      BY <1>1, TopFacts DEF Based, IInv
    <3>2. Raise(FALSE) \in Raising
      BY TaskKinds, Zenon
    <3>3. Len(stack) # 1
      BY <3>1, NotOne, Zenon
    <3>4. QED
      BY <1>5, <3>2, <3>3, Zenon
  <2>2. QED
    BY <1>1, <1>2, <1>5, <2>1, LeaveEffectStep
<1>6. QED
  BY <1>3, <1>4, <1>5

-----------------------------------------------------------------------------
(* Errors and returns. *)
LEMMA FailStep ==
    ASSUME IInv, Fail
    PROVE  StepOK
<1>1. stack # <<>> /\ Top.kind # "native" /\ Good(mgr') /\ Counters'
  BY DEF Fail, IInv, Counters
<1>2. \/ stack' = WithTop(NewFrame(Top.proto, "interp", 0)) /\ task' = Idle
      \/ Len(stack) = 1 /\ stack' = <<>> /\ task' = Idle
      \/ /\ Len(stack) # 1 /\ task' = Raise(Top.kind = "interp")
         /\ stack' = [Below EXCEPT ![Len(stack) - 1].effect = @ \/ (Top.effect /\ Top.kind # "interp")]
  BY DEF Fail
<1>3. CASE stack' = WithTop(NewFrame(Top.proto, "interp", 0)) /\ task' = Idle
  BY <1>1, <1>3, RestartStep
<1>4. CASE Len(stack) = 1 /\ stack' = <<>> /\ task' = Idle
  BY <1>1, <1>4, EmptyStep
<1>5. CASE /\ Len(stack) # 1 /\ task' = Raise(Top.kind = "interp")
           /\ stack' = [Below EXCEPT ![Len(stack) - 1].effect = @ \/ (Top.effect /\ Top.kind # "interp")]
  <2>1. task' \in {Idle} \cup Raising
    BY <1>5, TaskKinds
  <2>2. PICK e : e = (Top.effect /\ Top.kind # "interp")
    OBVIOUS
  <2>3. stack' = [Below EXCEPT ![Len(stack) - 1].effect = @ \/ e]
    BY <1>5, <2>2
  <2>4. QED
    BY <1>1, <1>5, <2>1, <2>3, LeaveEffectStep
<1>6. QED
  BY <1>2, <1>3, <1>4, <1>5

LEMMA CatchStep ==
    ASSUME IInv, Catch
    PROVE  StepOK
<1>1. Good(mgr') /\ Counters' /\ task' = Idle /\ task \in Raising
  BY TaskKinds DEF Catch, IInv, Counters
<1>2. stack # <<>> /\ NoNative(stack) /\ StackOK(stack)
  BY <1>1, TaskKinds DEF IInv, TaskOK
<1>3. FrameOK(Top) /\ Top.kind # "native"
  BY <1>2, TopFacts DEF NoNative
<1>4. PICK fr : fr = Resumed(Top, NewFrame(Top.proto, "interp", 0), mgr)
  OBVIOUS
<1>5. Kept(Top, fr) /\ stack' = WithTop(fr)
  BY <1>3, <1>4, ResumedKept DEF Catch
<1>6. QED
  BY <1>1, <1>2, <1>3, <1>5, KeepTopStep

LEMMA ReturnStep ==
    ASSUME IInv, Return, Top.kind # "native"
    PROVE  StepOK
<1> DEFINE p == Top.proto
           n == Len(stack)
           caller == stack[n - 1]
<1>1. stack # <<>> /\ task = Idle /\ p \in Protos /\ FrameOK(Top) /\ Good(mgr) /\ Counters
  BY RunningFacts DEF Return
<1>2. PICK m \in IF Top.deferred THEN Retired(mgr, p, Top.code) ELSE {mgr} :
        mgr' = m \/ mgr' \in PromoteCallee(m, p)
  BY DEF Return
<1>3. Good(m)
  <2>1. CASE Top.deferred
    <3>1. Top.code \in Bodies
      BY <1>1, <2>1, TieringAssumption DEF FrameOK, Frame, Bodies, Tier2Kinds
    <3>2. QED
      BY <1>1, <1>2, <2>1, <3>1, RetiredGood DEF Counters
  <2>2. QED
    BY <1>1, <1>2, <2>1
<1>4. Good(mgr')
  BY <1>1, <1>2, <1>3, PromoteCalleeGood DEF Counters
<1>5. Counters' /\ task' = Idle
  BY <1>1 DEF Counters, Return
<1>6. \/ n = 1 /\ stack' = <<>>
      \/ n # 1 /\ stack' = [Below EXCEPT ![n - 1] = Resumed(caller, Top, mgr')]
  BY DEF Return
<1>7. CASE n = 1 /\ stack' = <<>>
  BY <1>4, <1>5, <1>7, EmptyStep
<1>8. CASE n # 1 /\ stack' = [Below EXCEPT ![n - 1] = Resumed(caller, Top, mgr')]
  <2>1. PICK g : g = Resumed(caller, Top, mgr')
    OBVIOUS
  <2>2. FrameOK(caller)
    BY <1>1, <1>8, BelowTop DEF IInv
  <2>3. Kept(caller, g) /\ stack' = [Below EXCEPT ![n - 1] = g]
    BY <1>8, <2>1, <2>2, ResumedKept
  <2>4. QED
    BY <1>1, <1>4, <1>5, <1>8, <2>3, LeaveStep
<1>9. QED
  BY <1>6, <1>7, <1>8

-----------------------------------------------------------------------------
(* The steps that leave native frames on the stack. *)

(* A step that keeps the lowest frames of the stack and what is published. *)
LEMMA KeepStep ==
    ASSUME IInv, Good(mgr'), Counters', task' = Idle, mgr'.compiled = mgr.compiled,
           StackOK(stack'), Len(stack') <= Len(stack),
           \A i \in 1..Len(stack') : Kept(stack[i], stack'[i])
    PROVE  StepOK
<1>0. /\ Len(stack) \in Nat /\ Len(stack') \in Nat
      /\ \A i \in 1..Len(stack') : i \in 1..Len(stack)
      /\ \A i \in 1..Len(stack') : /\ stack'[i].kind = stack[i].kind /\ stack'[i].code = stack[i].code
                                   /\ stack'[i].proto = stack[i].proto
  BY DEF IInv, StackOK, Kept
<1>1. PICK k \in 0..Len(stack) : Split(stack, k)
  BY DEF IInv, NativeOK
<1>2. \E j \in 0..Len(stack') : Split(stack', j)
  <2>1. CASE k <= Len(stack')
    <3>1. k \in 0..Len(stack') /\ Split(stack', k)
      BY <1>0, <1>1, <2>1 DEF Split
    <3>2. QED
      BY <3>1
  <2>2. CASE k > Len(stack')
    <3>1. \A i \in 1..Len(stack') : ~(i > k) /\ ~(i > Len(stack'))
      BY <1>0, <1>1, <2>2
    <3>2. Len(stack') \in 0..Len(stack') /\ Split(stack', Len(stack'))
      BY <1>0, <1>1, <3>1 DEF Split
    <3>3. QED
      BY <3>2
  <2>3. QED
    BY <1>0, <1>1, <2>1, <2>2
<1>3. ASSUME NEW i \in 1..Len(stack'), stack'[i].kind = "native" PROVE Linked(stack', mgr', i)
  <2>1. Linked(stack, mgr, i)
    BY <1>0, <1>3 DEF IInv, NativeOK
  <2>2. i > 1
    BY <1>3 DEF StackOK, Based
  <2>3. i - 1 \in 1..Len(stack')
    BY <1>0, <2>2
  <2>4. stack'[i - 1].proto = stack[i - 1].proto
    BY <1>0, <2>3
  <2>5. QED
    BY <1>0, <2>1, <2>4 DEF Linked, Separate
<1>4. NativeOK(stack', mgr')
  BY <1>2, <1>3 DEF NativeOK
<1>5. Entered
  BY <1>0 DEF Entered
<1>6. Resumes
  BY <1>0 DEF Resumes
<1>7. QED
  BY <1>4, <1>5, <1>6, IdleOK DEF StepOK, IInv

LEMMA ObserveStep ==
    ASSUME IInv, NEW p \in Protos, Observe(p)
    PROVE  StepOK
<1>1. Good(mgr') /\ task' = Idle /\ mgr'.compiled = mgr.compiled /\ StackOK(stack') /\ stack' = stack
  BY DEF Observe, IInv
<1>2. feedback \in [Protos -> 0..MaxFeedback] /\ MaxFeedback \in Nat
  BY TieringAssumption DEF IInv, Counters
<1>3. feedback[p] + 1 \in 0..MaxFeedback
  BY <1>2 DEF Observe
<1>4. Counters'
  BY <1>2, <1>3 DEF Observe, IInv, Counters
<1>5. Len(stack') <= Len(stack) /\ \A i \in 1..Len(stack') : Kept(stack[i], stack'[i])
  BY <1>1, KeptSelf DEF StackOK
<1>6. QED
  BY <1>1, <1>4, <1>5, KeepStep

LEMMA SetFactStep ==
    ASSUME IInv, SetFact
    PROVE  StepOK
<1>1. /\ stack # <<>> /\ task = Idle /\ FrameOK(Top) /\ Kept(Top, Acted(Top)) /\ Good(mgr)
      /\ StackOK(stack) /\ Len(stack) \in Nat /\ Based(Top, Len(stack)) /\ Top = stack[Len(stack)]
  BY RunningFacts, TopFacts DEF SetFact, IInv
<1>2. Good(mgr') /\ task' = Idle /\ mgr'.compiled = mgr.compiled
  BY <1>1 DEF SetFact
<1>3. Counters'
  BY TieringAssumption DEF SetFact, IInv, Counters
<1>4. PICK fr : fr = Acted(Top)
  OBVIOUS
<1>5. Kept(Top, fr) /\ FrameOK(fr) /\ Based(fr, Len(stack)) /\ stack' = WithTop(fr)
  BY <1>1, <1>4 DEF Kept, Based, SetFact
<1>6. /\ StackOK(stack') /\ Len(stack') = Len(stack) /\ stack'[Len(stack)] = fr
      /\ \A i \in 1..(Len(stack) - 1) : stack'[i] = stack[i]
  BY <1>1, <1>5, Retop
<1>7. ASSUME NEW i \in 1..Len(stack') PROVE Kept(stack[i], stack'[i])
  <2>1. i = Len(stack) \/ i \in 1..(Len(stack) - 1)
    BY <1>1, <1>6
  <2>2. CASE i = Len(stack)
    BY <1>1, <1>5, <1>6, <2>2
  <2>3. CASE i \in 1..(Len(stack) - 1)
    <3>1. i \in 1..Len(stack) /\ stack'[i] = stack[i]
      BY <1>1, <1>6, <2>3
    <3>2. QED
      BY <1>1, <3>1, KeptSelf DEF StackOK
  <2>4. QED
    BY <2>1, <2>2, <2>3
<1>8. Len(stack') <= Len(stack)
  BY <1>1, <1>6
<1>9. QED
  BY <1>2, <1>3, <1>6, <1>7, <1>8, KeepStep

LEMMA NativeExitStep ==
    ASSUME IInv, NativeExit
    PROVE  StepOK
<1>1. stack # <<>> /\ stack[Len(stack)].kind = "native"
  BY DEF NativeExit, Running, Top
<1>2. /\ mgr' = mgr /\ feedback' = feedback /\ epoch' = epoch /\ stack' = stack /\ task' = Unwinding
  BY DEF NativeExit
<1>3. TaskOK(task', stack')
  BY <1>1, <1>2, TaskKinds DEF TaskOK
<1>4. Good(mgr') /\ Counters' /\ StackOK(stack') /\ NativeOK(stack', mgr')
  BY <1>2 DEF IInv, Counters
<1>5. Entered /\ Resumes
  BY <1>2 DEF Entered, Resumes, IInv, StackOK
<1>6. QED
  BY <1>3, <1>4, <1>5 DEF StepOK, IInv

LEMMA PopStep ==
    ASSUME IInv, Good(mgr'), Counters', task' = Idle, mgr'.compiled = mgr.compiled,
           NEW j \in 1..Len(stack), NEW g, Kept(stack[j], g),
           stack' = [SubSeq(stack, 1, j) EXCEPT ![j] = g]
    PROVE  StepOK
<1>1. StackOK(stack) /\ Len(stack) \in Nat
  BY DEF IInv, StackOK
<1>2. /\ StackOK(stack') /\ Len(stack') = j /\ stack'[j] = g
      /\ \A i \in 1..(j - 1) : stack'[i] = stack[i]
  <2>1. LET t == [SubSeq(stack, 1, j) EXCEPT ![j] = g]
        IN /\ StackOK(t) /\ Len(t) = j /\ t[j] = g
           /\ \A i \in 1..(j - 1) : t[i] = stack[i]
    BY <1>1, Cut
  <2>2. QED
    BY <2>1, Zenon
<1>3. ASSUME NEW i \in 1..Len(stack') PROVE Kept(stack[i], stack'[i])
  <2>1. i = j \/ i \in 1..(j - 1)
    BY <1>2
  <2>2. CASE i = j
    BY <1>2, <2>2
  <2>3. CASE i \in 1..(j - 1)
    <3>1. i \in 1..Len(stack) /\ stack'[i] = stack[i]
      BY <1>1, <1>2, <2>3
    <3>2. QED
      BY <1>1, <3>1, KeptSelf DEF StackOK
  <2>4. QED
    BY <2>1, <2>2, <2>3
<1>4. Len(stack') <= Len(stack)
  BY <1>1, <1>2
<1>5. QED
  BY <1>2, <1>3, <1>4, KeepStep

(* A native activation never put off its refresh: nothing is retired. *)
LEMMA NativeReturnStep ==
    ASSUME IInv, Return, Top.kind = "native"
    PROVE  StepOK
<1> DEFINE k == Len(stack) - 1
           caller == stack[k]
<1>1. /\ stack # <<>> /\ task = Idle /\ FrameOK(Top) /\ Good(mgr) /\ StackOK(stack)
      /\ Based(Top, Len(stack)) /\ Len(stack) \in Nat
  BY RunningFacts, TopFacts DEF Return, IInv
<1>2. Len(stack) > 1 /\ ~Top.deferred
  BY <1>1 DEF Based, FrameOK
<1>3. mgr' = mgr
  BY <1>2 DEF Return
<1>4. Len(stack) # 1
  BY <1>1, <1>2, NotOne, Zenon
<1>5. k \in 1..Len(stack) /\ FrameOK(caller)
  BY <1>1, <1>4, BelowTop
<1>6. PICK g : g = Resumed(caller, Top, mgr')
  OBVIOUS
<1>7. Kept(caller, g) /\ stack' = [SubSeq(stack, 1, k) EXCEPT ![k] = g]
  BY <1>4, <1>5, <1>6, ResumedKept DEF Return, Below
<1>8. PICK j \in 1..Len(stack) : j = k
  BY <1>5
<1>9. Kept(stack[j], g) /\ stack' = [SubSeq(stack, 1, j) EXCEPT ![j] = g]
  BY <1>7, <1>8
<1> HIDE DEF k
<1>10. Good(mgr') /\ mgr'.compiled = mgr.compiled /\ Counters' /\ task' = Idle
  BY <1>1, <1>3 DEF Return, IInv, Counters
<1>11. QED
  BY <1>9, <1>10, PopStep

(* A call site that remembers what it loads now. *)
LEMMA RememberGood ==
    ASSUME NEW m, Good(m), NEW q \in Protos
    PROVE  LET n == [m EXCEPT !.cached[q] = @ \cup ({Loaded(m, q)} \ {0})]
           IN Good(n) /\ n.compiled = m.compiled
<1> DEFINE n == [m EXCEPT !.cached[q] = @ \cup ({Loaded(m, q)} \ {0})]
           ca == [m.cached EXCEPT ![q] = m.cached[q] \cup ({Loaded(m, q)} \ {0})]
<1>0. m \in Manager
  BY DEF Good
<1>1. n = [m EXCEPT !.cached = ca]
  OBVIOUS
<1>2. Loaded(m, q) \in Entry /\ m.cached \in [Protos -> SUBSET (Bodies \cup {Tier1})]
  BY <1>0, Fields DEF Loaded, Entry
<1>3. {Loaded(m, q)} \ {0} \in SUBSET (Bodies \cup {Tier1})
  BY <1>2, TieringAssumption DEF Entry, Bodies
<1>4. /\ ca \in [Protos -> SUBSET (Bodies \cup {Tier1})]
      /\ \A p \in Protos : ca[p] \subseteq m.cached[p] \cup {Loaded(m, p)}
  BY <1>2, <1>3
<1> HIDE DEF ca
<1>5. n \in Manager /\ SameCode(m, n) /\ n.direct = m.direct /\ n.tier2 = m.tier2 /\ n.cached = ca
  BY <1>0, <1>1, <1>4 DEF Manager, SameCode
<1> HIDE DEF n
<1>6. BodiesAreMade(n) /\ IndexExact(n) /\ \A p \in Protos : EntryExact(n, p)
  BY <1>5 DEF Good, SameCode, BodiesAreMade, IndexExact, EntryExact, Follows
<1>7. CacheExact(n)
  BY <1>4, <1>5 DEF Good, CacheExact, Loaded
<1>8. Good(n) /\ n.compiled = m.compiled
  BY <1>5, <1>6, <1>7 DEF Good, SameCode
<1>9. QED
  BY <1>8 DEF n

(* What a native caller enters is what is published. *)
LEMMA LoadedFacts ==
    ASSUME NEW m, Good(m), NEW q \in Protos, NEW e \in m.cached[q] \cup {Loaded(m, q)},
           e # 0, e # Tier1
    PROVE  e \in 0..MaxBodies /\ (~CallsNamesake(q) => m.compiled[q] \in {0, e})
<1>1. e = Loaded(m, q)
  BY DEF Good, CacheExact
<1>2. e = m.direct[q] \/ e = m.tier2[q]
  BY <1>1 DEF Loaded
<1>3. m.direct[q] \in Entry /\ m.tier2[q] \in 0..MaxBodies
  BY Fields DEF Good
<1>4. EntryExact(m, q)
  BY DEF Good
<1>5. QED
  BY <1>2, <1>3, <1>4 DEF Entry, EntryExact, Follows

LEMMA NativePushStep ==
    ASSUME IInv, Good(mgr'), Counters', task' = Idle, mgr'.compiled = mgr.compiled,
           stack # <<>>, Len(stack) < MaxDepth, NEW q \in Protos, q \in Calls[Top.proto],
           NEW c \in 0..MaxBodies, c # 0,
           q # Top.proto /\ ~CallsNamesake(q) => mgr.compiled[q] \in {0, c},
           Top.kind \in Tier2Kinds, stack' = Append(stack, NewFrame(q, "native", c))
    PROVE  StepOK
<1>0. /\ StackOK(stack) /\ Len(stack) \in Nat /\ Len(stack) > 0 /\ Top = stack[Len(stack)]
      /\ MaxDepth \in Nat
  BY TopFacts, TieringAssumption DEF IInv
<1>1. PICK fr : fr = NewFrame(q, "native", c)
  OBVIOUS
<1>2. FrameOK(fr) /\ fr.kind = "native" /\ fr.proto = q /\ fr.code = c
  BY <1>1, NewFrameOK DEF Kinds, Tier2Kinds
<1>3. PICK n : n = Len(stack)
  OBVIOUS
<1>4. Based(fr, Len(stack) + 1)
  BY <1>0 DEF Based
<1>5. /\ StackOK(stack') /\ Len(stack') = n + 1 /\ stack'[n + 1] = fr
      /\ \A i \in 1..n : stack'[i] = stack[i]
  <2>1. LET t == Append(stack, fr)
        IN /\ StackOK(t) /\ Len(t) = Len(stack) + 1 /\ t[Len(stack) + 1] = fr
           /\ \A i \in 1..Len(stack) : t[i] = stack[i]
    BY <1>0, <1>2, <1>4, Push, Zenon
  <2>2. QED
    BY <1>1, <1>3, <2>1, Zenon
<1>6. n \in Nat /\ n > 0 /\ \A i \in 1..Len(stack') : i = n + 1 \/ i \in 1..n
  BY <1>0, <1>3, <1>5
<1>7. PICK k \in 0..n : Split(stack, k)
  BY <1>3 DEF IInv, NativeOK
<1>8. Split(stack', k) /\ k \in 0..Len(stack')
  BY <1>2, <1>3, <1>5, <1>6, <1>7 DEF Split
<1>9. ASSUME NEW i \in 1..Len(stack'), stack'[i].kind = "native" PROVE Linked(stack', mgr', i)
  <2>1. CASE i = n + 1
    <3>1. i - 1 = n /\ stack'[i] = fr
      BY <1>5, <1>6, <2>1
    <3>2. stack'[i - 1].proto = Top.proto
      BY <1>0, <1>3, <1>5, <1>6, <3>1
    <3>3. QED
      BY <1>2, <3>1, <3>2 DEF Linked, Separate
  <2>2. CASE i \in 1..n
    <3>1. stack'[i] = stack[i] /\ stack[i].kind = "native"
      BY <1>5, <1>9, <2>2
    <3>2. Linked(stack, mgr, i) /\ i > 1
      BY <1>0, <1>3, <2>2, <3>1 DEF IInv, NativeOK, StackOK, Based
    <3>3. i - 1 \in 1..n
      BY <1>6, <2>2, <3>2
    <3>4. stack'[i - 1] = stack[i - 1]
      BY <1>5, <3>3
    <3>5. QED
      BY <3>1, <3>2, <3>4 DEF Linked, Separate
  <2>3. QED
    BY <1>6, <2>1, <2>2
<1>10. NativeOK(stack', mgr')
  BY <1>8, <1>9 DEF NativeOK
<1>11. Entered
  <2> SUFFICES ASSUME NEW i \in 1..Len(stack'), stack'[i].kind = "tier2",
                      i > n \/ stack[i].kind # "tier2"
               PROVE  FALSE
    BY <1>3 DEF Entered
  <2>1. QED
    BY <1>2, <1>5, <1>6
<1>12. Resumes
  BY <1>3, <1>5 DEF Resumes
<1>13. QED
  BY <1>5, <1>10, <1>11, <1>12, IdleOK DEF StepOK, IInv

LEMMA NativeCallStep ==
    ASSUME IInv, NEW q \in Protos, NativeCall(q)
    PROVE  StepOK
<1>1. /\ stack # <<>> /\ task = Idle /\ Top.proto \in Protos /\ FrameOK(Top) /\ Good(mgr)
      /\ Top.kind \in Tier2Kinds /\ q \in Calls[Top.proto] /\ Len(stack) < MaxDepth
  BY RunningFacts DEF NativeCall, Tier2Kinds
<1>2. PICK e \in mgr.cached[q] \cup {Loaded(mgr, q)} :
         /\ e # 0
         /\ mgr' = [mgr EXCEPT !.cached[q] = @ \cup ({Loaded(mgr, q)} \ {0})]
         /\ stack' = IF q = Top.proto THEN Append(stack, NewFrame(q, "native", Top.code))
                     ELSE IF e = Tier1 THEN stack
                     ELSE Append(stack, NewFrame(q, "native", e))
  BY DEF NativeCall
<1>3. Good(mgr') /\ mgr'.compiled = mgr.compiled
  BY <1>1, <1>2, RememberGood
<1>4. Counters' /\ task' = Idle
  BY <1>1 DEF NativeCall, IInv, Counters
<1>5. CASE q = Top.proto
  <2>1. PICK c \in 0..MaxBodies : c = Top.code /\ c # 0
    BY <1>1 DEF FrameOK, Frame
  <2>2. stack' = Append(stack, NewFrame(q, "native", c))
    BY <1>1, <1>2, <1>5, <2>1
  <2>3. QED
    BY <1>1, <1>3, <1>4, <1>5, <2>1, <2>2, NativePushStep
<1>6. CASE q # Top.proto /\ e = Tier1
  <2>1. stack' = stack
    BY <1>2, <1>6
  <2>2. StackOK(stack') /\ Len(stack') <= Len(stack) /\ \A i \in 1..Len(stack') : Kept(stack[i], stack'[i])
    BY <2>1, KeptSelf DEF IInv, StackOK
  <2>3. QED
    BY <1>3, <1>4, <2>2, KeepStep
<1>7. CASE q # Top.proto /\ e # Tier1
  <2>1. e \in 0..MaxBodies /\ (~CallsNamesake(q) => mgr.compiled[q] \in {0, e})
    BY <1>1, <1>2, <1>7, LoadedFacts
  <2>2. stack' = Append(stack, NewFrame(q, "native", e)) /\ e # 0
    BY <1>2, <1>7
  <2>3. QED
    BY <1>1, <1>3, <1>4, <2>1, <2>2, NativePushStep
<1>8. QED
  BY <1>5, <1>6, <1>7

-----------------------------------------------------------------------------
(* Native frames are taken over from the outermost one on. *)
LEMMA OutermostFacts ==
    ASSUME IInv, task = Unwinding, NEW i, i = Outermost
    PROVE  /\ i \in 1..Len(stack) /\ i - 1 \in 1..Len(stack) /\ i > 1
           /\ stack[i].kind = "native" /\ Split(stack, i - 1) /\ Linked(stack, mgr, i)
           /\ FrameOK(stack[i]) /\ FrameOK(stack[i - 1])
<1>0. StackOK(stack) /\ stack # <<>> /\ stack[Len(stack)].kind = "native"
  BY DEF IInv, TaskOK
<1>1. Len(stack) \in Nat /\ Len(stack) \in 1..Len(stack)
  BY <1>0, TopFacts
<1>2. PICK k \in 0..Len(stack) : Split(stack, k)
  BY DEF IInv, NativeOK
<1>3. Len(stack) > k
  BY <1>0, <1>1, <1>2 DEF Split
<1>4. k + 1 \in 1..Len(stack) /\ k + 1 > k
  BY <1>1, <1>3
<1>5. stack[k + 1].kind = "native"
  BY <1>2, <1>4 DEF Split
<1>6. \A j \in 1..((k + 1) - 1) : j \in 1..Len(stack) /\ ~(j > k)
  BY <1>1, <1>3
<1>7. \A j \in 1..((k + 1) - 1) : stack[j].kind # "native"
  BY <1>2, <1>6 DEF Split
<1> DEFINE P(x) == stack[x].kind = "native" /\ \A j \in 1..(x - 1) : stack[j].kind # "native"
<1>8. i \in 1..Len(stack) /\ P(i)
  <2>1. \E x \in 1..Len(stack) : P(x)
    BY <1>4, <1>5, <1>7
  <2>2. i = CHOOSE x \in 1..Len(stack) : P(x)
    BY DEF Outermost
  <2> HIDE DEF P
  <2>3. QED
    BY <2>1, <2>2, Zenon
<1>9. i > k
  BY <1>2, <1>8 DEF Split
<1>10. i = k + 1
  <2>1. ~(k + 1 \in 1..(i - 1))
    BY <1>5, <1>8
  <2>2. QED
    BY <1>1, <1>4, <1>8, <1>9, <2>1
<1>11. i - 1 = k /\ Split(stack, i - 1)
  BY <1>2, <1>10
<1>12. i > 1 /\ FrameOK(stack[i]) /\ Linked(stack, mgr, i)
  BY <1>0, <1>8 DEF StackOK, Based, IInv, NativeOK
<1>13. i - 1 \in 1..Len(stack)
  BY <1>1, <1>8, <1>12
<1>14. FrameOK(stack[i - 1])
  BY <1>0, <1>13 DEF StackOK
<1>15. QED
  BY <1>8, <1>11, <1>12, <1>13, <1>14

Over(fr, p, c) == [fr EXCEPT !.kind = "resumed", !.proto = p, !.code = c]
Taken(s, i, p, c) == [s EXCEPT ![i].kind = "resumed", ![i].proto = p, ![i].code = c]

LEMMA TakenOver ==
    ASSUME NEW fr, FrameOK(fr), fr.kind = "native", NEW p \in Protos,
           NEW c \in 0..MaxBodies, c # 0
    PROVE  /\ FrameOK(Over(fr, p, c)) /\ Over(fr, p, c).kind = "resumed"
           /\ Over(fr, p, c).code = c /\ Over(fr, p, c).proto = p
  BY DEF Over, FrameOK, Frame, Kinds, Tier2Kinds

LEMMA TakeOverStack ==
    ASSUME NEW s \in Seq(Frame), NEW i \in 1..Len(s), NEW p, NEW c
    PROVE  Taken(s, i, p, c) = [s EXCEPT ![i] = Over(s[i], p, c)]
  BY DEF Taken, Over

LEMMA TakeOver ==
    ASSUME NEW s, StackOK(s), NEW i \in 1..Len(s), s[i].kind = "native",
           NEW p \in Protos, NEW c \in 0..MaxBodies, c # 0
    PROVE  LET t == Taken(s, i, p, c)
           IN /\ StackOK(t) /\ Len(t) = Len(s)
              /\ t[i].kind = "resumed" /\ t[i].code = c /\ t[i].proto = p
              /\ \A j \in 1..Len(s) : j # i => t[j] = s[j]
<1>1. s \in Seq(Frame) /\ FrameOK(s[i]) /\ Based(s[i], i)
  BY DEF StackOK
<1>2. PICK h : h = Over(s[i], p, c)
  OBVIOUS
<1>3. FrameOK(h) /\ h.kind = "resumed" /\ h.code = c /\ h.proto = p
  BY <1>1, <1>2, TakenOver
<1>4. Based(h, i)
  BY <1>1, <1>3 DEF Based
<1>5. PICK u : u = [s EXCEPT ![i] = h]
  OBVIOUS
<1>6. Taken(s, i, p, c) = u
  BY <1>1, <1>2, <1>5, TakeOverStack
<1>7. /\ StackOK(u) /\ Len(u) = Len(s) /\ u[i] = h
      /\ \A j \in 1..Len(s) : j # i => u[j] = s[j]
  <2>1. LET t == [s EXCEPT ![i] = h]
        IN /\ StackOK(t) /\ Len(t) = Len(s) /\ t[i] = h
           /\ \A j \in 1..Len(s) : j # i => t[j] = s[j]
    BY <1>3, <1>4, Change
  <2>2. QED
    BY <1>5, <2>1, Zenon
<1>8. QED
  BY <1>3, <1>6, <1>7, Zenon

(* The body that a native activation is taken over in is its own if its caller has
   another name, and published unless it is the body of a running caller. *)
LEMMA ExitCalleeFacts ==
    ASSUME IInv, NEW m, Sheds(mgr, m), NEW i, Linked(stack, mgr, i),
           FrameOK(stack[i]), FrameOK(stack[i - 1]),
           NEW p, NEW c, c # 0,
           ExitCallee(m, stack[i - 1], stack[i].proto) = [proto |-> p, code |-> c]
    PROVE  /\ p \in Protos /\ c \in 0..MaxBodies
           /\ Follows(m, p) => c = m.compiled[p]
           /\ p = stack[i].proto \/ (CallsNamesake(p) /\ Name[p] = Name[stack[i].proto])
           /\ Separate(stack, i) => p = stack[i].proto /\ c = stack[i].code
<1> DEFINE q == stack[i].proto
           r == stack[i - 1].proto
<1>1. q \in Protos /\ r \in Protos /\ stack[i - 1].code \in 0..MaxBodies
  BY DEF FrameOK, Frame
<1>2. m.compiled[q] \in 0..MaxBodies /\ m.compiled[q] \in {0, mgr.compiled[q]}
  BY <1>1, Fields DEF Sheds, Good
<1>3. Separate(stack, i) => m.compiled[q] \in {0, stack[i].code}
  BY <1>2 DEF Linked
<1> HIDE DEF q, r
<1>4. CASE m.compiled[q] # 0
  <2>1. p = q /\ c = m.compiled[q]
    BY <1>4 DEF ExitCallee, q
  <2>2. QED
    BY <1>1, <1>2, <1>3, <1>4, <2>1 DEF q
<1>5. CASE m.compiled[q] = 0
  <2>1. /\ q = r \/ Name[q] = Name[r]
        /\ p = r /\ c = stack[i - 1].code
    BY <1>5 DEF ExitCallee, q, r
  <2>2. ~Separate(stack, i)
    BY <2>1 DEF Separate, q, r
  <2>3. q \in Calls[r] \/ CallsNamesake(r)
    BY DEF Linked, q, r
  <2>4. CASE q = r
    BY <1>1, <1>5, <2>1, <2>2, <2>3, <2>4 DEF Follows, q
  <2>5. CASE q # r
    <3>1. Name[q] = Name[r]
      BY <2>1, <2>5
    <3>2. CallsNamesake(r)
      BY <2>3, <2>5, <3>1 DEF CallsNamesake
    <3>3. QED
      BY <1>1, <2>1, <2>2, <3>1, <3>2 DEF Follows, q
  <2>6. QED
    BY <2>4, <2>5
<1>6. QED
  BY <1>4, <1>5

(* A step that takes the activation i over. *)
LEMMA TakeOverStep ==
    ASSUME IInv, task = Unwinding, NEW i, i = Outermost, Sheds(mgr, mgr'), Counters',
           NEW p \in Protos, NEW c \in 0..MaxBodies, c # 0,
           p = stack[i].proto \/ (CallsNamesake(p) /\ Name[p] = Name[stack[i].proto]),
           Separate(stack, i) => p = stack[i].proto /\ c = stack[i].code,
           StackOK(stack'), Len(stack') = Len(stack),
           stack'[i].kind = "resumed", stack'[i].code = c, stack'[i].proto = p,
           \A j \in 1..Len(stack) : j # i => stack'[j] = stack[j],
           task' = IF i = Len(stack) THEN Idle ELSE Unwinding
    PROVE  StepOK
<1>0. /\ i \in 1..Len(stack) /\ i - 1 \in 1..Len(stack) /\ i > 1
      /\ stack[i].kind = "native" /\ Split(stack, i - 1) /\ FrameOK(stack[i])
  BY OutermostFacts
<1>1. StackOK(stack) /\ stack \in Seq(Frame) /\ Len(stack) \in Nat
  BY DEF IInv, StackOK
<1>2. ASSUME NEW j \in 1..Len(stack)
      PROVE  \/ stack'[j].proto = stack[j].proto
             \/ CallsNamesake(stack'[j].proto) /\ Name[stack'[j].proto] = Name[stack[j].proto]
  OBVIOUS
<1>3. Split(stack', i) /\ i \in 0..Len(stack')
  <2> SUFFICES ASSUME NEW j \in 1..Len(stack) PROVE stack'[j].kind = "native" <=> j > i
    BY <1>0, <1>1 DEF Split
  <2>1. CASE j = i
    BY <1>0, <2>1
  <2>2. CASE j # i
    <3>1. j > i - 1 <=> j > i
      BY <1>0, <2>2
    <3>2. QED
      BY <1>0, <2>2, <3>1 DEF Split
  <2>3. QED
    BY <2>1, <2>2
<1>4. ASSUME NEW j \in 1..Len(stack'), stack'[j].kind = "native" PROVE Linked(stack', mgr', j)
  <2>1. j # i /\ stack'[j] = stack[j] /\ stack[j].proto \in Protos
    BY <1>1, <1>4 DEF StackOK, FrameOK, Frame
  <2>2. Linked(stack, mgr, j) /\ j > 1
    BY <1>1, <1>4, <2>1 DEF IInv, NativeOK, StackOK, Based
  <2>3. j - 1 \in 1..Len(stack)
    BY <1>1, <2>2
  <2>4. mgr'.compiled[stack[j].proto] \in {0, mgr.compiled[stack[j].proto]}
    BY <2>1 DEF Sheds
  <2>5. \/ stack'[j - 1].proto = stack[j - 1].proto
        \/ /\ CallsNamesake(stack'[j - 1].proto)
           /\ Name[stack'[j - 1].proto] = Name[stack[j - 1].proto]
    BY <1>2, <2>3
  <2>6. QED
    BY <2>1, <2>2, <2>4, <2>5 DEF Linked, Separate
<1>5. NativeOK(stack', mgr')
  BY <1>3, <1>4 DEF NativeOK
<1>6. TaskOK(task', stack')
  <2>1. CASE i = Len(stack)
    BY <2>1, IdleOK
  <2>2. CASE i # Len(stack)
    <3>1. Len(stack) \in 1..Len(stack) /\ Len(stack) > i - 1
      BY <1>0, <1>1
    <3>2. stack'[Len(stack')].kind = "native"
      BY <1>0, <2>2, <3>1 DEF Split
    <3>3. stack' # <<>>
      BY <1>0, <1>1
    <3>4. task' = Unwinding
      BY <2>2
    <3>5. QED
      BY <3>2, <3>3, <3>4, TaskKinds DEF TaskOK
  <2>3. QED
    BY <2>1, <2>2
<1>7. Entered
  <2> SUFFICES ASSUME NEW j \in 1..Len(stack'), stack'[j].kind = "tier2",
                      j > Len(stack) \/ stack[j].kind # "tier2"
               PROVE  FALSE
    BY DEF Entered
  <2>1. ~(j > Len(stack))
    BY <1>1
  <2>2. QED
    BY <2>1
<1>8. Resumes
  <2> SUFFICES ASSUME NEW j \in 2..Len(stack), stack[j].kind = "native",
                      Separate(stack, j), stack'[j].kind = "resumed"
               PROVE  stack'[j].proto = stack[j].proto /\ stack'[j].code = stack[j].code
    BY DEF Resumes, Separate
  <2>1. j = i
    BY <1>1
  <2>2. QED
    BY <2>1
<1>9. Good(mgr')
  BY DEF Sheds
<1>10. QED
  BY <1>5, <1>6, <1>7, <1>8, <1>9 DEF StepOK, IInv

LEMMA ResumeCalleeStep ==
    ASSUME IInv, ResumeCallee
    PROVE  StepOK
<1>1. PICK i : i = Outermost
  OBVIOUS
<1>2. PICK q : q = stack[i].proto
  OBVIOUS
<1>3. PICK m : m = CheckDependencies(mgr, q)
  OBVIOUS
<1>4. PICK p, c : ExitCallee(m, stack[i - 1], q) = [proto |-> p, code |-> c]
  BY DEF ExitCallee
<1>5. PICK n : n = IF p \in Replay THEN m ELSE SetEntries(m, p, 0, IF p \in Direct THEN c ELSE 0)
  OBVIOUS
<1>6. /\ task = Unwinding /\ c # 0 /\ (mgr' = n \/ mgr' \in Profiled(n, p, c))
      /\ stack' = [stack EXCEPT ![i].kind = "resumed", ![i].proto = p, ![i].code = c]
      /\ task' = IF i = Len(stack) THEN Idle ELSE Unwinding
      /\ feedback' = feedback /\ epoch' = epoch
  BY <1>1, <1>2, <1>3, <1>4, <1>5 DEF ResumeCallee
<1>7. /\ Linked(stack, mgr, i) /\ FrameOK(stack[i]) /\ FrameOK(stack[i - 1])
  BY <1>1, <1>6, OutermostFacts
<1>8. q \in Protos /\ Good(mgr) /\ Counters'
  BY <1>2, <1>6, <1>7 DEF FrameOK, Frame, IInv, Counters
<1>9. Sheds(mgr, m) /\ Good(m)
  BY <1>3, <1>8, CheckGood DEF Sheds
<1>10. /\ p \in Protos /\ c \in 0..MaxBodies
       /\ Follows(m, p) => c = m.compiled[p]
       /\ p = stack[i].proto \/ (CallsNamesake(p) /\ Name[p] = Name[stack[i].proto])
       /\ Separate(stack, i) => p = stack[i].proto /\ c = stack[i].code
  BY <1>2, <1>4, <1>6, <1>7, <1>9, ExitCalleeFacts
<1>11. Sheds(m, n) /\ Good(n)
  <2>1. CASE p \in Replay
    BY <1>5, <1>9, <2>1, ShedsSelf
  <2>2. CASE p \notin Replay
    <3>1. PICK t : t = IF p \in Direct THEN c ELSE 0
      OBVIOUS
    <3>2. 0 \in Entry /\ t \in 0..MaxBodies /\ (Follows(m, p) => t \in {0, m.compiled[p]})
      BY <1>10, <3>1, TieringAssumption DEF Entry
    <3>3. n = SetEntries(m, p, 0, t)
      BY <1>5, <2>2, <3>1
    <3>4. Sheds(m, n)
      BY <1>9, <1>10, <3>2, <3>3, SetEntriesGood
    <3>5. QED
      BY <3>4 DEF Sheds
  <2>3. QED
    BY <2>1, <2>2
<1>12. Sheds(mgr, mgr')
  BY <1>6, <1>9, <1>10, <1>11, ProfiledGood, ShedsTwice
<1>13. StackOK(stack) /\ i \in 1..Len(stack) /\ stack[i].kind = "native" /\ c # 0
  BY <1>1, <1>6, OutermostFacts DEF IInv
<1>14. /\ StackOK(stack') /\ Len(stack') = Len(stack)
       /\ stack'[i].kind = "resumed" /\ stack'[i].code = c /\ stack'[i].proto = p
       /\ \A j \in 1..Len(stack) : j # i => stack'[j] = stack[j]
  <2>1. LET t == Taken(stack, i, p, c)
        IN /\ StackOK(t) /\ Len(t) = Len(stack)
           /\ t[i].kind = "resumed" /\ t[i].code = c /\ t[i].proto = p
           /\ \A j \in 1..Len(stack) : j # i => t[j] = stack[j]
    BY <1>10, <1>13, TakeOver
  <2>2. stack' = Taken(stack, i, p, c)
    BY <1>6 DEF Taken
  <2>3. QED
    BY <2>1, <2>2
<1>15. QED
  BY <1>1, <1>6, <1>8, <1>10, <1>12, <1>14, TakeOverStep

LEMMA MissingCalleeStep ==
    ASSUME IInv, MissingCallee
    PROVE  StepOK
<1>1. PICK i : i = Outermost
  OBVIOUS
<1>2. /\ task = Unwinding /\ mgr' = CheckDependencies(mgr, stack[i].proto)
      /\ stack' = [SubSeq(stack, 1, i - 1) EXCEPT ![i - 1].effect =
                     @ \/ \E k \in i..Len(stack) : stack[k].effect]
      /\ task' = Raise(FALSE) /\ feedback' = feedback /\ epoch' = epoch
  BY <1>1 DEF MissingCallee
<1>3. /\ i \in 1..Len(stack) /\ i - 1 \in 1..Len(stack) /\ i > 1 /\ Split(stack, i - 1)
      /\ FrameOK(stack[i]) /\ FrameOK(stack[i - 1])
  BY <1>1, <1>2, OutermostFacts
<1>4. Good(mgr') /\ Counters'
  BY <1>2, <1>3, CheckGood DEF FrameOK, Frame, IInv, Counters, Sheds
<1>5. PICK k \in 1..Len(stack) : k = i - 1
  BY <1>3
<1>6. Len(stack) \in Nat /\ stack \in Seq(Frame)
  BY DEF IInv, StackOK
<1>7. \A j \in 1..k : stack[j].kind # "native"
  <2>1. \A j \in 1..k : j \in 1..Len(stack) /\ ~(j > k)
    BY <1>6
  <2>2. QED
    BY <1>3, <1>5, <2>1 DEF Split
<1>8. SubSeq(stack, 1, k)[k] = stack[k]
  BY <1>6, SubSeqOK
<1>9. PICK e : e = (stack[k].effect \/ \E j \in i..Len(stack) : stack[j].effect)
  OBVIOUS
<1>10. PICK g : g = [stack[k] EXCEPT !.effect = e]
  OBVIOUS
<1>11. Kept(stack[k], g)
  BY <1>3, <1>5, <1>9, <1>10, EffectKept
<1>12. stack' = [SubSeq(stack, 1, k) EXCEPT ![k] = g]
  BY <1>2, <1>5, <1>8, <1>9, <1>10
<1>13. task' \in {Idle} \cup Raising
  BY <1>2, TaskKinds, Zenon
<1>14. QED
  BY <1>4, <1>7, <1>11, <1>12, <1>13, CutStep

-----------------------------------------------------------------------------
(* The inductive invariant holds. *)
LEMMA InitGood ==
    ASSUME Init
    PROVE  Good(mgr)
<1>0. 0 \in 0..MaxBodies /\ 0 \in 0..MaxEpoch /\ 0 \in 0..MaxFeedback
  BY TieringAssumption
<1> DEFINE b == [epoch |-> 0, callees |-> {}, seen |-> 0]
<1>1. b \in Body
  BY <1>0 DEF Body
<1>2. mgr = [made |-> 0, body |-> [c \in Bodies |-> b],
             compiled |-> [p \in Protos |-> 0], failed |-> {}, requests |-> {},
             dependents |-> [p \in Protos |-> {}],
             direct |-> [p \in Protos |-> 0], tier2 |-> [p \in Protos |-> 0],
             promoted |-> {}, cached |-> [p \in Protos |-> {}],
             baseline |-> {}, quiet |-> {}, osr |-> {}]
  BY DEF Init
<1> HIDE DEF b
<1>3. [c \in Bodies |-> b] \in [Bodies -> Body]
  BY <1>1
<1>4. mgr \in Manager
  BY <1>0, <1>2, <1>3 DEF Manager
<1>5. /\ mgr.made = 0
      /\ \A p \in Protos : /\ mgr.compiled[p] = 0 /\ mgr.dependents[p] = {} /\ mgr.direct[p] = 0
                           /\ mgr.tier2[p] = 0 /\ mgr.cached[p] = {}
  BY <1>2
<1>6. QED
  BY <1>4, <1>5 DEF Good, BodiesAreMade, IndexExact, CacheExact, EntryExact

LEMMA InitInv == Init => IInv
<1> SUFFICES ASSUME Init PROVE IInv
  OBVIOUS
<1>1. Good(mgr)
  BY InitGood
<1>2. Counters
  BY TieringAssumption DEF Init, Counters
<1>3. stack = <<>> /\ task = Idle
  BY DEF Init
<1>4. StackOK(stack) /\ Len(stack) = 0 /\ TaskOK(task, stack)
  BY <1>3, IdleOK, TieringAssumption DEF StackOK
<1>5. NativeOK(stack, mgr)
  <2>1. Split(stack, 0) /\ 0 \in 0..Len(stack)
    BY <1>4 DEF Split
  <2>2. QED
    BY <1>4, <2>1 DEF NativeOK
<1>6. QED
  BY <1>1, <1>2, <1>4, <1>5 DEF IInv

LEMMA StutterStep ==
    ASSUME IInv, UNCHANGED vars
    PROVE  StepOK
<1>1. mgr' = mgr /\ feedback' = feedback /\ epoch' = epoch /\ stack' = stack /\ task' = task
  BY DEF vars
<1>2. IInv'
  BY <1>1 DEF IInv, Counters
<1>3. Entered /\ Resumes
  BY <1>1 DEF Entered, Resumes, IInv, StackOK
<1>4. QED
  BY <1>2, <1>3 DEF StepOK

LEMMA NextStep == IInv /\ [Next]_vars => StepOK
<1> SUFFICES ASSUME IInv, [Next]_vars PROVE StepOK
  OBVIOUS
<1>1. ASSUME NEW p \in Protos,
             CallCompiled(p) \/ CallInterpreted(p) \/ CallTier1(p) \/ CallPromoted(p)
               \/ EnsureCallee(p) \/ NativeCall(p) \/ Observe(p)
      PROVE  StepOK
  BY <1>1, CallCompiledStep, CallInterpretedStep, CallTier1Step, CallPromotedStep, EnsureCalleeStep,
     NativeCallStep, ObserveStep
<1>2. CASE FireOSR \/ PromoteTier2 \/ HandleOSR
  BY <1>2, FireOSRStep, PromoteTier2Step, HandleOSRStep
<1>3. CASE Tier1Deopt \/ SideExit \/ ResumedExit \/ Deopt \/ ResumedDeopt
  BY <1>3, Tier1DeoptStep, SideExitStep, ResumedExitStep, DeoptStep, ResumedDeoptStep
<1>4. CASE Return \/ Fail \/ Catch
  BY <1>4, ReturnStep, NativeReturnStep, FailStep, CatchStep
<1>5. CASE NativeExit \/ ResumeCallee \/ MissingCallee \/ SetFact
  BY <1>5, NativeExitStep, ResumeCalleeStep, MissingCalleeStep, SetFactStep
<1>6. CASE UNCHANGED vars
  BY <1>6, StutterStep
<1>7. QED
  BY <1>1, <1>2, <1>3, <1>4, <1>5, <1>6 DEF Next

LEMMA Inductive == Spec => []IInv
<1>1. IInv /\ [Next]_vars => IInv'
  BY NextStep DEF StepOK
<1>2. QED
  BY InitInv, <1>1, PTL DEF Spec

-----------------------------------------------------------------------------
(* Theorems. *)

\* The manager, its stack and its task stay well formed through every call, promotion,
\* exit, deopt, error and return, and exactly the activations that run Tier 2 code
\* have a body.
THEOREM TypeCorrect == Spec => []TypeOK
<1>1. IInv => TypeOK
  BY DEF IInv, Good, Counters, StackOK, FrameOK, Tier2Kinds, TaskOK, TypeOK
<1>2. QED
  BY Inductive, <1>1, PTL

\* specDependents lists a caller under a callee exactly when its published body
\* speculated on the callee, whatever was published, revoked, retired or recompiled.
THEOREM IndexIsExact == Spec => []DependentsExact
<1>1. IInv => DependentsExact
  <2> SUFFICES ASSUME IInv, NEW q \in Protos
               PROVE  mgr.dependents[q] = {p \in Protos \ {q} :
                         mgr.compiled[p] # 0 /\ q \in mgr.body[mgr.compiled[p]].callees}
    BY DEF DependentsExact
  <2>1. mgr.dependents[q] \subseteq Protos /\ IndexExact(mgr)
    BY Fields DEF IInv, Good
  <2>2. QED
    BY <2>1 DEF IndexExact
<1>2. QED
  BY Inductive, <1>1, PTL

\* A call site that trusts the DirectEntryVersion it remembers enters what it would
\* load: every change of a proto's entries gives them a new version.
THEOREM CacheIsExact == Spec => []CachedEntryIsLoaded
<1>1. IInv => CachedEntryIsLoaded
  BY DEF IInv, Good, CacheExact, CachedEntryIsLoaded
<1>2. QED
  BY Inductive, <1>1, PTL

\* Whatever revokes a body also revokes the entries through which native callers reach
\* it, and only published bodies have entries, but for the body of a running caller of
\* itself or of a namesake that an exit publishes again.
THEOREM EntriesArePublished == Spec => []EntryOfPublished
<1>1. IInv => EntryOfPublished
  BY DEF IInv, Good, EntryExact, Follows, EntryOfPublished
<1>2. QED
  BY Inductive, <1>1, PTL

\* executeTier2 starts no body whose compilation dependencies no longer hold, on a call,
\* after a promotion or through OSR.
THEOREM EnteredIsValid == Spec => EnteredCodeIsValid
<1>1. Entered => \A i \in 1..Len(stack') :
        LET fr == stack'[i]
        IN /\ fr.kind = "tier2"
           /\ i > Len(stack) \/ stack[i].kind # "tier2"
           => fr.proto \notin Assumes \/ mgr'.body[fr.code].epoch = epoch'
  BY DEF Entered, Valid
<1>2. IInv /\ [Next]_vars => Entered
  BY NextStep DEF StepOK
<1>3. QED
  BY Inductive, <1>1, <1>2, PTL DEF Spec, EnteredCodeIsValid

\* executeNativeCallExit resumes an activation in the body that took the exit, for a
\* function whose caller has another name and that calls no namesake but itself.
THEOREM ResumedInItsBody == Spec => ResumesInItsBody
<1>1. IInv /\ [Next]_vars => Resumes
  BY NextStep DEF StepOK
<1>2. QED
  BY Inductive, <1>1, PTL DEF Spec, ResumesInItsBody, Resumes

=============================================================================
