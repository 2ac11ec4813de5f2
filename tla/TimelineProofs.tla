--------------------------- MODULE TimelineProofs ---------------------------
(***************************************************************************)
(* Proofs about Timeline and the list of TimelineList over it: any events, *)
(* filter, requests and number of them at a time, and failures or none.    *)
(***************************************************************************)
EXTENDS TimelineList, OrderProofs

(***************************************************************************)
(* A move: whatever list it is worked out on, it takes one event from its  *)
(* place and puts it next to its anchor.                                   *)
(***************************************************************************)
Follows(s, m) == m.id \in ToSet(s) /\ m.after \in ToSet(s) \ {m.id}
Leads(s, m) == m.id \in ToSet(s) /\ m.after \notin ToSet(s) \ {m.id} /\ m.before \in ToSet(s) \ {m.id}

\* Where m.id goes in s: before what, and behind what.
LEMMA MovedIs ==
    ASSUME NEW s, Straight(s), NEW m
    PROVE  /\ Follows(s, m) =>
                 /\ Moved(s, m) = Replaced(s, m.id, PlaceOf(Without(s, m.id), m.after) + 1)
                 /\ PlaceOf(Without(s, m.id), m.after) + 1 \in 2..Len(Without(s, m.id)) + 1
           /\ Leads(s, m) =>
                 /\ Moved(s, m) = Replaced(s, m.id, PlaceOf(Without(s, m.id), m.before))
                 /\ PlaceOf(Without(s, m.id), m.before) \in 1..Len(Without(s, m.id))
           /\ ~Follows(s, m) /\ ~Leads(s, m) => Moved(s, m) = s
<1> DEFINE rest == Without(s, m.id)
<1>1. Straight(rest) /\ ToSet(rest) = ToSet(s) \ {m.id}
  BY WithoutFacts
<1>2. \A x \in ToSet(rest) : PlaceOf(rest, x) \in 1..Len(rest) /\ Len(rest) \in Nat
  BY <1>1, PlaceFacts, StraightFacts
<1>3. ASSUME Follows(s, m)
      PROVE  /\ Moved(s, m) = Replaced(s, m.id, PlaceOf(rest, m.after) + 1)
             /\ PlaceOf(rest, m.after) + 1 \in 2..Len(rest) + 1
  <2>1. m.id \in ToSet(s) /\ m.after \in ToSet(rest)
    BY <1>1, <1>3 DEF Follows
  <2> HIDE DEF rest
  <2>2. PlaceOf(rest, m.after) + 1 \in 2..Len(rest) + 1
    BY <1>2, <2>1
  <2>3. Moved(s, m) = Replaced(s, m.id, PlaceOf(rest, m.after) + 1)
    BY <2>1 DEF Moved, Replaced, rest
  <2>4. QED
    BY <2>2, <2>3
<1>4. ASSUME Leads(s, m)
      PROVE  /\ Moved(s, m) = Replaced(s, m.id, PlaceOf(rest, m.before))
             /\ PlaceOf(rest, m.before) \in 1..Len(rest)
  <2>1. m.id \in ToSet(s) /\ m.after \notin ToSet(rest) /\ m.before \in ToSet(rest)
    BY <1>1, <1>4 DEF Leads
  <2> HIDE DEF rest
  <2>2. PlaceOf(rest, m.before) \in 1..Len(rest)
    BY <1>2, <2>1
  <2>3. Moved(s, m) = Replaced(s, m.id, PlaceOf(rest, m.before))
    BY <2>1 DEF Moved, Replaced, rest
  <2>4. QED
    BY <2>2, <2>3
<1>5. ASSUME ~Follows(s, m), ~Leads(s, m) PROVE Moved(s, m) = s
  <2>1. m.id \notin ToSet(s) \/ (m.after \notin ToSet(rest) /\ m.before \notin ToSet(rest))
    BY <1>1, <1>5 DEF Follows, Leads
  <2>2. QED
    BY <2>1 DEF Moved
<1>6. QED
  BY <1>3, <1>4, <1>5

\* A move keeps the events and the order of those it does not move.
LEMMA MovedFacts ==
    ASSUME NEW s, Straight(s), NEW m
    PROVE  /\ Straight(Moved(s, m)) /\ ToSet(Moved(s, m)) = ToSet(s)
           /\ \A x, y \in ToSet(s) \ {m.id} : <<x, y>> \in Before(Moved(s, m)) <=> <<x, y>> \in Before(s)
<1> DEFINE t == Moved(s, m)
           rest == Without(s, m.id)
           i == PlaceOf(rest, m.after) + 1
           j == PlaceOf(rest, m.before)
<1>1. CASE Follows(s, m)
  <2>1. t = Replaced(s, m.id, i) /\ i \in 1..Len(rest) + 1 /\ m.id \in ToSet(s)
    BY <1>1, MovedIs, WithoutFacts DEF Follows
  <2> HIDE DEF t, i
  <2>2. /\ Straight(t) /\ ToSet(t) = ToSet(s) \cup {m.id}
        /\ \A x, y \in ToSet(s) \ {m.id} : <<x, y>> \in Before(t) <=> <<x, y>> \in Before(s)
    BY <2>1, ReplacedFacts
  <2>3. ToSet(s) \cup {m.id} = ToSet(s)
    BY <2>1
  <2>4. QED
    BY <2>2, <2>3 DEF t
<1>2. CASE Leads(s, m)
  <2>1. t = Replaced(s, m.id, j) /\ j \in 1..Len(rest) + 1 /\ m.id \in ToSet(s)
    <3>1. Len(rest) \in Nat
      BY WithoutFacts
    <3>2. t = Replaced(s, m.id, j) /\ j \in 1..Len(rest) /\ m.id \in ToSet(s)
      BY <1>2, MovedIs DEF Leads
    <3> HIDE DEF rest, j, t
    <3>3. QED
      BY <3>1, <3>2
  <2> HIDE DEF t, j
  <2>2. /\ Straight(t) /\ ToSet(t) = ToSet(s) \cup {m.id}
        /\ \A x, y \in ToSet(s) \ {m.id} : <<x, y>> \in Before(t) <=> <<x, y>> \in Before(s)
    BY <2>1, ReplacedFacts
  <2>3. ToSet(s) \cup {m.id} = ToSet(s)
    BY <2>1
  <2>4. QED
    BY <2>2, <2>3 DEF t
<1>3. CASE ~Follows(s, m) /\ ~Leads(s, m)
  BY <1>3, MovedIs
<1>4. QED
  BY <1>1, <1>2, <1>3

\* An event that is moved behind another comes after that one and what was before it.
LEMMA MovedBehind ==
    ASSUME NEW s, Straight(s), NEW m, Follows(s, m), NEW x \in ToSet(s) \ {m.id}
    PROVE  <<x, m.id>> \in Before(Moved(s, m)) <=> x = m.after \/ <<x, m.after>> \in Before(s)
<1> DEFINE t == Moved(s, m)
           rest == Without(s, m.id)
           a == PlaceOf(rest, m.after)
<1>1. /\ Straight(rest) /\ ToSet(rest) = ToSet(s) \ {m.id}
      /\ \A u, v \in ToSet(s) \ {m.id} : <<u, v>> \in Before(rest) <=> <<u, v>> \in Before(s)
  BY WithoutFacts
<1>2. m.after \in ToSet(rest) /\ x \in ToSet(rest) /\ m.id \notin ToSet(rest)
  BY <1>1 DEF Follows
<1>3. t = InsertAt(rest, a + 1, m.id) /\ a + 1 \in 1..Len(rest) + 1
  BY MovedIs, WithoutFacts DEF Replaced
<1> HIDE DEF t, rest
<1>4. a \in DOMAIN rest /\ rest[a] = m.after /\ DOMAIN rest = 1..Len(rest) /\ Len(rest) \in Nat
  BY <1>1, <1>2, PlaceFacts, StraightFacts
<1>5. PICK k \in DOMAIN rest : rest[k] = x
  BY <1>1, <1>2, StraightFacts
<1> HIDE DEF a
<1>6. <<x, m.id>> \in Before(t) <=> k < a + 1
  BY <1>1, <1>2, <1>3, <1>5, InsertFacts
<1>7. <<x, m.after>> \in Before(rest) <=> k < a
  BY <1>1, <1>4, <1>5, BeforeMeans
<1>8. x = m.after <=> k = a
  BY <1>1, <1>4, <1>5, StraightFacts
<1>9. k < a + 1 <=> k = a \/ k < a
  BY <1>4, <1>5
<1>10. <<x, m.after>> \in Before(rest) <=> <<x, m.after>> \in Before(s)
  BY <1>1, <1>2
<1>11. QED
  BY <1>6, <1>7, <1>8, <1>9, <1>10 DEF t

\* One that is moved before another comes after what was before that one.
LEMMA MovedAhead ==
    ASSUME NEW s, Straight(s), NEW m, Leads(s, m), NEW x \in ToSet(s) \ {m.id}
    PROVE  <<x, m.id>> \in Before(Moved(s, m)) <=> <<x, m.before>> \in Before(s)
<1> DEFINE t == Moved(s, m)
           rest == Without(s, m.id)
           b == PlaceOf(rest, m.before)
<1>1. /\ Straight(rest) /\ ToSet(rest) = ToSet(s) \ {m.id}
      /\ \A u, v \in ToSet(s) \ {m.id} : <<u, v>> \in Before(rest) <=> <<u, v>> \in Before(s)
  BY WithoutFacts
<1>2. m.before \in ToSet(rest) /\ x \in ToSet(rest) /\ m.id \notin ToSet(rest)
  BY <1>1 DEF Leads
<1>3. t = InsertAt(rest, b, m.id) /\ b \in 1..Len(rest) + 1
  BY MovedIs, WithoutFacts DEF Replaced
<1> HIDE DEF t, rest
<1>4. b \in DOMAIN rest /\ rest[b] = m.before
  BY <1>1, <1>2, PlaceFacts
<1>5. PICK k \in DOMAIN rest : rest[k] = x
  BY <1>1, <1>2, StraightFacts
<1> HIDE DEF b
<1>6. <<x, m.id>> \in Before(t) <=> k < b
  BY <1>1, <1>2, <1>3, <1>5, InsertFacts
<1>7. <<x, m.before>> \in Before(rest) <=> k < b
  BY <1>1, <1>4, <1>5, BeforeMeans
<1>8. <<x, m.before>> \in Before(rest) <=> <<x, m.before>> \in Before(s)
  BY <1>1, <1>2
<1>9. QED
  BY <1>6, <1>7, <1>8 DEF t

\* A move that changes a list leaves its event next to its anchor.
LEMMA MovedLandsNextTo ==
    ASSUME NEW s, Straight(s), NEW m, Moved(s, m) # s
    PROVE  LET t == Moved(s, m)
               i == PlaceOf(t, m.id)
           IN (i > 1 /\ t[i - 1] = m.after) \/ (i < Len(t) /\ t[i + 1] = m.before)
<1> DEFINE t == Moved(s, m)
           rest == Without(s, m.id)
           a == PlaceOf(rest, m.after)
           b == PlaceOf(rest, m.before)
           i == PlaceOf(t, m.id)
<1>1. Straight(rest) /\ ToSet(rest) = ToSet(s) \ {m.id} /\ m.id \notin ToSet(rest) /\ Len(rest) \in Nat
  BY WithoutFacts
<1>2. Follows(s, m) \/ Leads(s, m)
  BY MovedIs
<1>3. CASE Follows(s, m)
  <2>1. t = InsertAt(rest, a + 1, m.id) /\ a + 1 \in 2..Len(rest) + 1 /\ m.after \in ToSet(rest)
    BY <1>1, <1>3, MovedIs DEF Replaced, Follows
  <2>2. rest[a] = m.after /\ a \in 1..Len(rest)
    BY <1>1, <2>1, PlaceFacts, StraightFacts
  <2> HIDE DEF t, rest, a
  <2>3. a + 1 \in 1..Len(rest) + 1 /\ a + 1 > 1 /\ (a + 1) - 1 = a
    BY <1>1, <2>2
  <2>4. Straight(t) /\ DOMAIN t = 1..Len(rest) + 1 /\ t[a + 1] = m.id /\ t[a] = rest[a]
    <3> DEFINE c == a + 1
    <3>1. c \in 1..Len(rest) + 1 /\ c > 1 /\ c - 1 = a /\ t = InsertAt(rest, c, m.id)
      BY <2>1, <2>3
    <3> HIDE DEF c
    <3>2. Straight(t) /\ DOMAIN t = 1..Len(rest) + 1 /\ t[c] = m.id /\ t[c - 1] = rest[c - 1]
      BY <1>1, <3>1, InsertFacts
    <3>3. QED
      BY <3>1, <3>2 DEF c
  <2>5. i = a + 1
    BY <2>3, <2>4, PlaceFacts
  <2>6. i > 1 /\ t[i - 1] = m.after
    BY <2>2, <2>3, <2>4, <2>5
  <2>7. QED
    BY <2>6 DEF t
<1>4. CASE Leads(s, m)
  <2>1. t = InsertAt(rest, b, m.id) /\ b \in 1..Len(rest) /\ m.before \in ToSet(rest)
    BY <1>1, <1>4, MovedIs DEF Replaced, Leads
  <2>2. rest[b] = m.before
    BY <1>1, <2>1, PlaceFacts
  <2> HIDE DEF t, rest, b
  <2>3. b \in 1..Len(rest) + 1 /\ b <= Len(rest) /\ b < Len(rest) + 1
    BY <1>1, <2>1
  <2>4. Straight(t) /\ DOMAIN t = 1..Len(rest) + 1 /\ t[b] = m.id /\ t[b + 1] = rest[b]
    BY <1>1, <2>1, <2>3, InsertFacts
  <2>5. i = b
    BY <2>3, <2>4, PlaceFacts
  <2>6. Len(t) = Len(rest) + 1
    BY <1>1, <2>4, StraightFacts
  <2>7. i < Len(t) /\ t[i + 1] = m.before
    BY <2>2, <2>3, <2>4, <2>5, <2>6
  <2>8. QED
    BY <2>7 DEF t
<1>5. QED
  BY <1>2, <1>3, <1>4

(***************************************************************************)
(* Moves one after another.                                                *)
(***************************************************************************)

\* The lists of the events in T.
Lists(T) == {s \in Seq(T) : Straight(s) /\ ToSet(s) = T}

LEMMA ListsFacts == \A s, T : s \in Lists(T) <=> Straight(s) /\ ToSet(s) = T
BY DEF Lists, Straight

\* f[k] is the list after the first k moves.
Run(f, s, moves) == f = [k \in 0 .. Len(moves) |-> IF k = 0 THEN s ELSE Moved(f[k - 1], moves[k])]

LEMMA RunIs ==
    ASSUME NEW s, NEW moves, Len(moves) \in Nat, NEW f, Run(f, s, moves)
    PROVE  /\ DOMAIN f = 0 .. Len(moves) /\ f[0] = s
           /\ \A k \in 1 .. Len(moves) : f[k] = Moved(f[k - 1], moves[k])
<1> DEFINE n == Len(moves)
           Step(k) == IF k = 0 THEN s ELSE Moved(f[k - 1], moves[k])
<1>1. f = [k \in 0 .. n |-> Step(k)]
  BY DEF Run
<1> HIDE DEF Step
<1>2. DOMAIN f = 0 .. n /\ \A k \in 0 .. n : f[k] = Step(k)
  BY <1>1
<1>3. 0 \in 0 .. n /\ \A k \in 1 .. n : k \in 0 .. n /\ k # 0
  OBVIOUS
<1>4. QED
  BY <1>2, <1>3 DEF Step

LEMMA RunExists ==
    ASSUME NEW s, Straight(s), NEW moves, Len(moves) \in Nat
    PROVE  \E f \in [0 .. Len(moves) -> Lists(ToSet(s))] : Run(f, s, moves)
<1> DEFINE n == Len(moves)
           L == Lists(ToSet(s))
           step == [p \in (1 .. n) \X L |-> Moved(p[2], moves[p[1]])]
<1>1. s \in L
  BY ListsFacts
<1>2. ASSUME NEW k \in 1 .. n, NEW t \in L PROVE Moved(t, moves[k]) \in L
  <2>1. Straight(t) /\ ToSet(t) = ToSet(s)
    BY ListsFacts
  <2>2. Straight(Moved(t, moves[k])) /\ ToSet(Moved(t, moves[k])) = ToSet(s)
    BY <2>1, MovedFacts
  <2>3. QED
    BY <2>2, ListsFacts
<1> HIDE DEF L
<1>3. step \in [(1 .. n) \X L -> L]
  BY <1>2
<1>4. \A k \in 1 .. n, t \in L : step[<<k, t>>] = Moved(t, moves[k])
  OBVIOUS
<1> HIDE DEF step, n
<1>5. n \in Nat
  BY DEF n
<1>6. PICK f \in [0 .. n -> L] : Iterate(f, n, s, step)
  BY <1>1, <1>3, <1>5, Iterates
<1>7. f[0] = s /\ \A k \in 1 .. n : f[k] = step[<<k, f[k - 1]>>]
  BY <1>6 DEF Iterate
<1>8. \A k \in 0 .. n : f[k] = IF k = 0 THEN s ELSE Moved(f[k - 1], moves[k])
  <2> SUFFICES ASSUME NEW k \in 0 .. n, k # 0 PROVE f[k] = Moved(f[k - 1], moves[k])
    BY <1>7
  <2>1. k \in 1 .. n /\ k - 1 \in 0 .. n
    BY <1>5
  <2>2. f[k - 1] \in L
    BY <2>1
  <2>3. QED
    BY <1>4, <1>7, <2>1, <2>2
<1>9. f = [k \in 0 .. n |-> IF k = 0 THEN s ELSE Moved(f[k - 1], moves[k])]
  BY <1>8
<1>10. QED
  BY <1>9 DEF Run, n, L

\* After is where some run ends.
LEMMA AfterIsRun ==
    ASSUME NEW s, Straight(s), NEW moves, Len(moves) \in Nat
    PROVE  \E f : Run(f, s, moves) /\ After(s, moves) = f[Len(moves)]
<1> DEFINE after == CHOOSE f : f = [k \in 0 .. Len(moves) |-> IF k = 0 THEN s ELSE Moved(f[k - 1], moves[k])]
<1>1. \E f : Run(f, s, moves)
  BY RunExists
<1>2. Run(after, s, moves)
  BY <1>1 DEF Run
<1>3. After(s, moves) = after[Len(moves)]
  BY DEF After
<1> HIDE DEF after
<1>4. QED
  BY <1>2, <1>3

\* Two runs agree as long as their moves do.
LEMMA RunsAgree ==
    ASSUME NEW s, NEW moves, NEW more, Len(moves) \in Nat, Len(more) \in Nat, Len(moves) <= Len(more),
           \A k \in 1 .. Len(moves) : more[k] = moves[k],
           NEW f, Run(f, s, moves), NEW g, Run(g, s, more)
    PROVE  \A k \in 0 .. Len(moves) : g[k] = f[k]
<1> DEFINE n == Len(moves)
           S == {k \in 0 .. n : g[k] = f[k]}
<1>1. f[0] = s /\ (\A k \in 1 .. n : f[k] = Moved(f[k - 1], moves[k]))
  <2>1. f[0] = s /\ (\A k \in 1 .. Len(moves) : f[k] = Moved(f[k - 1], moves[k]))
    BY ONLY Len(moves) \in Nat, Run(f, s, moves), RunIs
  <2>2. QED
    BY <2>1
<1>2. g[0] = s /\ (\A k \in 1 .. Len(more) : g[k] = Moved(g[k - 1], more[k]))
  BY RunIs
<1>3. 0 \in S
  BY <1>1, <1>2
<1>4. ASSUME NEW m \in 0 .. n - 1, m \in S PROVE m + 1 \in S
  <2>1. m + 1 \in 1 .. n /\ m + 1 \in 1 .. Len(more) /\ m + 1 \in 0 .. n /\ (m + 1) - 1 = m
    OBVIOUS
  <2>2. g[m] = f[m]
    BY <1>4
  <2>3. f[m + 1] = Moved(f[m], moves[m + 1]) /\ g[m + 1] = Moved(g[m], more[m + 1])
    BY <1>1, <1>2, <2>1
  <2>4. g[m + 1] = f[m + 1]
    BY <2>1, <2>2, <2>3
  <2>5. QED
    BY <2>1, <2>4
<1> HIDE DEF S
<1>5. 0 .. n \subseteq S
  BY <1>3, <1>4, UpTo
<1>6. QED
  BY <1>5 DEF S

\* No moves move nothing, and moves keep the events.
LEMMA AfterFacts ==
    ASSUME NEW s, Straight(s), NEW moves, Len(moves) \in Nat
    PROVE  Straight(After(s, moves)) /\ ToSet(After(s, moves)) = ToSet(s)
<1>1. PICK f : Run(f, s, moves) /\ After(s, moves) = f[Len(moves)]
  BY AfterIsRun
<1>2. PICK g \in [0 .. Len(moves) -> Lists(ToSet(s))] : Run(g, s, moves)
  BY RunExists
<1>3. f[Len(moves)] = g[Len(moves)] /\ g[Len(moves)] \in Lists(ToSet(s))
  BY <1>1, <1>2, RunsAgree
<1>4. QED
  BY <1>1, <1>3, ListsFacts

LEMMA AfterNone == ASSUME NEW s, Straight(s) PROVE After(s, <<>>) = s
<1>1. Len(<<>>) = 0
  OBVIOUS
<1>2. PICK f : Run(f, s, <<>>) /\ After(s, <<>>) = f[0]
  BY <1>1, AfterIsRun
<1>3. QED
  BY <1>1, <1>2, RunIs

\* One move more.
LEMMA AfterAppend ==
    ASSUME NEW s, Straight(s), NEW T, NEW moves \in Seq(T), NEW m \in T
    PROVE  After(s, Append(moves, m)) = Moved(After(s, moves), m)
<1> DEFINE n == Len(moves)
           more == Append(moves, m)
<1>1. n \in Nat /\ Len(more) = n + 1 /\ more[n + 1] = m /\ \A k \in 1 .. n : more[k] = moves[k]
  BY AppendProperties, LenProperties
<1> HIDE DEF more
<1>2. PICK f : Run(f, s, moves) /\ After(s, moves) = f[n]
  BY <1>1, AfterIsRun
<1>3. PICK g : Run(g, s, more) /\ After(s, more) = g[n + 1]
  BY <1>1, AfterIsRun
<1>4. g[n] = f[n]
  <2>1. Len(moves) \in Nat /\ Len(more) \in Nat /\ Len(moves) <= Len(more)
    BY <1>1
  <2>2. \A k \in 1 .. Len(moves) : more[k] = moves[k]
    BY <1>1
  <2>3. \A k \in 0 .. Len(moves) : g[k] = f[k]
    BY <1>2, <1>3, <2>1, <2>2, RunsAgree
  <2>4. n \in 0 .. Len(moves)
    BY <1>1
  <2>5. QED
    BY <2>3, <2>4
<1>5. g[n + 1] = Moved(g[n], m)
  <2>1. n + 1 \in 1 .. Len(more) /\ (n + 1) - 1 = n
    BY <1>1
  <2>2. \A k \in 1 .. Len(more) : g[k] = Moved(g[k - 1], more[k])
    BY <1>1, <1>3, RunIs
  <2>3. QED
    BY <1>1, <2>1, <2>2
<1>6. QED
  BY <1>2, <1>3, <1>4, <1>5 DEF more

\* The first of them.
LEMMA AfterFirst ==
    ASSUME NEW s, Straight(s), NEW T, NEW moves \in Seq(T), NEW m \in T
    PROVE  After(s, <<m>> \o moves) = After(Moved(s, m), moves)
<1> DEFINE n == Len(moves)
           all == <<m>> \o moves
           t == Moved(s, m)
<1>1. n \in Nat /\ Len(all) = n + 1 /\ all[1] = m /\ \A k \in 1 .. n : all[k + 1] = moves[k]
  <2>1. <<m>> \in Seq(T) /\ Len(<<m>>) = 1 /\ <<m>>[1] = m
    OBVIOUS
  <2>2. all \in Seq(T) /\ Len(all) = 1 + n /\ n \in Nat
    BY <2>1, ConcatProperties, LenProperties
  <2>3. \A i \in 1 .. Len(<<m>>) + n : all[i] = IF i <= Len(<<m>>) THEN <<m>>[i] ELSE moves[i - Len(<<m>>)]
    BY <2>1, ConcatProperties
  <2> HIDE DEF all
  <2>4. all[1] = m
    BY <2>1, <2>2, <2>3
  <2>5. ASSUME NEW k \in 1 .. n PROVE all[k + 1] = moves[k]
    <3>1. k + 1 \in 1 .. 1 + n /\ ~(k + 1 <= 1) /\ (k + 1) - 1 = k
      BY <2>2
    <3>2. QED
      BY <2>1, <2>3, <3>1
  <2>6. QED
    BY <2>2, <2>4, <2>5
<1>2. Straight(t)
  BY MovedFacts
<1> HIDE DEF all, t
<1>3. PICK f : Run(f, t, moves) /\ After(t, moves) = f[n]
  BY <1>1, <1>2, AfterIsRun
<1>4. PICK g : Run(g, s, all) /\ After(s, all) = g[n + 1]
  BY <1>1, AfterIsRun
<1>5. f[0] = t /\ \A k \in 1 .. n : f[k] = Moved(f[k - 1], moves[k])
  BY <1>1, <1>3, RunIs
<1>6. g[0] = s /\ \A k \in 1 .. n + 1 : g[k] = Moved(g[k - 1], all[k])
  BY <1>1, <1>4, RunIs
<1> DEFINE Same == {k \in 0 .. n : g[k + 1] = f[k]}
<1>7. 0 \in Same
  <2>1. 1 \in 1 .. n + 1 /\ 0 \in 0 .. n /\ 0 + 1 = 1 /\ 1 - 1 = 0
    BY <1>1
  <2>2. g[1] = Moved(g[0], all[1])
    BY <1>6, <2>1
  <2>3. g[1] = f[0]
    BY <1>1, <1>5, <1>6, <2>2 DEF t
  <2>4. QED
    BY <2>1, <2>3
<1>8. ASSUME NEW k \in 0 .. n - 1, k \in Same PROVE k + 1 \in Same
  <2>1. k + 1 \in 1 .. n /\ k + 1 \in 0 .. n /\ (k + 1) + 1 \in 1 .. n + 1 /\ (k + 1) - 1 = k /\ ((k + 1) + 1) - 1 = k + 1
    BY <1>1
  <2>2. f[k + 1] = Moved(f[k], moves[k + 1])
    BY <1>5, <2>1
  <2>3. g[(k + 1) + 1] = Moved(g[k + 1], all[(k + 1) + 1])
    BY <1>6, <2>1
  <2>4. all[(k + 1) + 1] = moves[k + 1] /\ g[k + 1] = f[k]
    BY <1>1, <1>8, <2>1
  <2>5. g[(k + 1) + 1] = f[k + 1]
    BY <2>2, <2>3, <2>4
  <2>6. QED
    BY <2>1, <2>5
<1> HIDE DEF Same
<1>9. 0 .. n \subseteq Same
  BY <1>1, <1>7, <1>8, UpTo
<1>10. n \in Same
  BY <1>1, <1>9
<1>11. QED
  BY <1>3, <1>4, <1>10 DEF Same, all, t

(***************************************************************************)
(* The stored order.                                                       *)
(***************************************************************************)
LEMMA Typed ==
    ASSUME TimelineTypeOK
    PROVE  /\ Len(ev) \in Nat /\ DOMAIN ev = 1 .. Len(ev) /\ DOMAIN ev \subseteq Ids
           /\ \A e \in DOMAIN ev : ev[e] \in Row /\ ev[e].order \in Nat /\ ev[e].deleted \in BOOLEAN
           /\ Live \subseteq DOMAIN ev /\ Live \subseteq Ids
           /\ IsFiniteSet(Live) /\ Cardinality(Live) \in Nat
<1>1. ev \in Seq(Row) /\ Len(ev) <= MaxEvents /\ MaxEvents \in Nat
  BY TimelineAssumption DEF TimelineTypeOK
<1>2. Len(ev) \in Nat /\ DOMAIN ev = 1 .. Len(ev)
  BY <1>1
<1>3. \A e \in DOMAIN ev : ev[e] \in Row
  BY <1>1
<1>4. \A r \in Row : r.order \in Nat /\ r.deleted \in BOOLEAN
  BY DEF Row
<1>5. DOMAIN ev \subseteq Ids
  BY <1>1, <1>2 DEF Ids
<1>6. Live \subseteq DOMAIN ev
  BY DEF Live
<1>7. IsFiniteSet(Live) /\ Cardinality(Live) \in Nat
  BY <1>2, <1>6, UpToCounts, FS_Subset, FS_CardinalityType
<1>8. QED
  BY <1>2, <1>3, <1>4, <1>5, <1>6, <1>7

\* Which event is stored before which.
Ordered == {p \in Live \X Live : Sooner(p[1], p[2])}

LEMMA OrderedIs == \A x, y \in Live : <<x, y>> \in Ordered <=> Sooner(x, y)
BY DEF Ordered

LEMMA OrderedLinear == ASSUME TimelineTypeOK PROVE Linear(Live, Ordered)
<1>1. IsFiniteSet(Live) /\ \A x \in Live : x \in Nat /\ ev[x].order \in Nat
  BY Typed DEF Ids
<1>2. \A x \in Live : <<x, x>> \notin Ordered
  BY <1>1, OrderedIs DEF Sooner
<1>3. \A x, y \in Live : x = y \/ <<x, y>> \in Ordered \/ <<y, x>> \in Ordered
  <2> SUFFICES ASSUME NEW x \in Live, NEW y \in Live, x # y
               PROVE  <<x, y>> \in Ordered \/ <<y, x>> \in Ordered
    OBVIOUS
  <2>1. x \in Nat /\ y \in Nat /\ ev[x].order \in Nat /\ ev[y].order \in Nat
    BY <1>1
  <2>2. Sooner(x, y) \/ Sooner(y, x)
    BY <2>1 DEF Sooner
  <2>3. QED
    BY <2>2, OrderedIs
<1>4. \A x, y, z \in Live : <<x, y>> \in Ordered /\ <<y, z>> \in Ordered => <<x, z>> \in Ordered
  <2> SUFFICES ASSUME NEW x \in Live, NEW y \in Live, NEW z \in Live, Sooner(x, y), Sooner(y, z)
               PROVE  Sooner(x, z)
    BY OrderedIs
  <2>1. /\ x \in Nat /\ y \in Nat /\ z \in Nat
        /\ ev[x].order \in Nat /\ ev[y].order \in Nat /\ ev[z].order \in Nat
    BY <1>1
  <2>2. QED
    BY <2>1 DEF Sooner
<1>5. QED
  BY <1>1, <1>2, <1>3, <1>4 DEF Linear

LEMMA StoredFacts ==
    ASSUME TimelineTypeOK
    PROVE  Straight(Stored) /\ ToSet(Stored) = Live /\ Stored \in Seq(Ids) /\ Sorted(Stored, Ordered)
<1>1. Stored = InOrder(Live, Ordered)
  BY DEF Stored, Ordered
<1>2. Linear(Live, Ordered)
  BY OrderedLinear
<1>3. Straight(Stored) /\ ToSet(Stored) = Live /\ Stored \in Seq(Live)
  BY <1>1, <1>2, InOrderFacts
<1>4. Sorted(Stored, Ordered)
  BY <1>1, <1>2, InOrderFacts
<1>5. Stored \in Seq(Ids)
  BY <1>3, Typed, SeqMonotonic
<1>6. QED
  BY <1>3, <1>4, <1>5

\* A move stays in the type of its list.
LEMMA MovedTyped ==
    ASSUME NEW T, NEW s \in Seq(T), Straight(s), NEW m
    PROVE  Moved(s, m) \in Seq(T)
<1>1. ToSet(s) \subseteq T
  BY DEF ToSet
<1>2. Moved(s, m) \in Seq(ToSet(s))
  BY MovedFacts DEF Straight
<1>3. QED
  BY <1>1, <1>2, SeqMonotonic

(***************************************************************************)
(* Timeline's inductive invariant.                                         *)
(***************************************************************************)
Inserting == {x \in Reqs : pc[x] = "insert"}

\* What a move that is to be committed was worked out from.
Prepared(p) ==
    /\ req[p].move \in MoveArgs /\ Straight(req[p].read)
    /\ Moved(req[p].read, req[p].move) # req[p].read

TInv ==
    /\ TimelineTypeOK
    /\ IsFiniteSet(Inserting) /\ Len(ev) + Cardinality(Inserting) <= MaxEvents
    /\ \A p \in Reqs : pc[p] = "commit" => Prepared(p)

LEMMA TInit == Init => TInv
<1> SUFFICES ASSUME Init PROVE TInv
  OBVIOUS
<1>1. PICK n \in 0 .. MaxEvents : ev \in [1 .. n -> [order : Orders, deleted : BOOLEAN]]
  BY DEF Init
<1>2. n \in Nat /\ MaxEvents \in Nat /\ [order : Orders, deleted : BOOLEAN] \subseteq Row
  <2>1. Orders \subseteq Nat /\ MaxEvents \in Nat
    BY TimelineAssumption
  <2>2. [order : Orders, deleted : BOOLEAN] \subseteq Row
    BY <2>1 DEF Row
  <2>3. QED
    BY <2>1, <2>2
<1>3. ev \in [1 .. n -> Row]
  BY <1>1, <1>2
<1>4. ev \in Seq(Row) /\ Len(ev) = n
  BY <1>2, <1>3
<1>5. /\ pc = [p \in Reqs |-> "idle"] /\ req = [p \in Reqs |-> Blank]
  BY DEF Init
<1>6. Blank \in Request
  BY DEF Blank, Request, MoveArgs
<1>7. TimelineTypeOK
  BY <1>1, <1>2, <1>4, <1>5, <1>6 DEF TimelineTypeOK
<1>8. Inserting = {}
  BY <1>5 DEF Inserting
<1>9. IsFiniteSet(Inserting) /\ Len(ev) + Cardinality(Inserting) <= MaxEvents
  BY <1>1, <1>2, <1>4, <1>8, FS_EmptySet
<1>10. \A p \in Reqs : pc[p] # "commit"
  BY <1>5
<1>11. QED
  BY <1>7, <1>9, <1>10 DEF TInv

\* A request that arrives.
LEMMA ArriveStep ==
    ASSUME TInv, NEW p \in Reqs, NEW step \in Awaits \cup {"unmoved"}, NEW q \in Request, Arrive(p, step, q),
           step = "insert" => Len(ev) + Cardinality(Inserting) < MaxEvents,
           step = "commit" => q.move \in MoveArgs /\ Straight(q.read) /\ Moved(q.read, q.move) # q.read
    PROVE  TInv'
<1>1. pc[p] = "idle" /\ pc' = [pc EXCEPT ![p] = step] /\ req' = [req EXCEPT ![p] = q] /\ ev' = ev
  BY DEF Arrive
<1>2. /\ pc \in [Reqs -> {"idle"} \cup Awaits \cup Outcomes] /\ req \in [Reqs -> Request]
      /\ ev \in Seq(Row) /\ Len(ev) <= MaxEvents
  BY DEF TInv, TimelineTypeOK
<1>3. pc' \in [Reqs -> {"idle"} \cup Awaits \cup Outcomes]
  BY <1>1, <1>2 DEF Outcomes
<1>4. req' \in [Reqs -> Request]
  BY <1>1, <1>2
<1>5. TimelineTypeOK'
  BY <1>1, <1>2, <1>3, <1>4 DEF TimelineTypeOK
<1>6. Inserting' = IF step = "insert" THEN Inserting \cup {p} ELSE Inserting
  BY <1>1, <1>2 DEF Inserting
<1>7. p \notin Inserting /\ IsFiniteSet(Inserting) /\ Cardinality(Inserting) \in Nat /\ Len(ev) \in Nat /\ MaxEvents \in Nat
  BY <1>1, <1>2, FS_CardinalityType, TimelineAssumption DEF Inserting, TInv
<1>8. IsFiniteSet(Inserting') /\ Len(ev') + Cardinality(Inserting') <= MaxEvents
  <2>1. CASE step = "insert"
    <3>1. IsFiniteSet(Inserting \cup {p}) /\ Cardinality(Inserting \cup {p}) = Cardinality(Inserting) + 1
      BY <1>7, FS_AddElement
    <3>2. QED
      BY <1>1, <1>6, <1>7, <2>1, <3>1
  <2>2. CASE step # "insert"
    BY <1>1, <1>6, <2>2 DEF TInv
  <2>3. QED
    BY <2>1, <2>2
<1>9. \A x \in Reqs : pc'[x] = "commit" => Prepared(x)'
  <2> SUFFICES ASSUME NEW x \in Reqs, pc'[x] = "commit" PROVE Prepared(x)'
    OBVIOUS
  <2>1. CASE x = p
    <3>1. step = "commit" /\ req'[x] = q
      BY <1>1, <1>2, <2>1
    <3>2. QED
      BY <3>1 DEF Prepared
  <2>2. CASE x # p
    <3>1. pc[x] = "commit" /\ req'[x] = req[x]
      BY <1>1, <1>2, <2>2
    <3>2. QED
      BY <3>1 DEF Prepared, TInv
  <2>3. QED
    BY <2>1, <2>2
<1>10. QED
  BY <1>5, <1>8, <1>9 DEF TInv

\* One that is served, and one that fails.
LEMMA LeaveStep ==
    ASSUME TInv, NEW p \in Reqs, pc[p] \in Awaits, NEW outcome \in Outcomes,
           pc' = [pc EXCEPT ![p] = outcome], req' = req,
           ev' \in Seq(Row), Len(ev') = Len(ev) \/ (pc[p] = "insert" /\ Len(ev') = Len(ev) + 1)
    PROVE  TInv'
<1>1. /\ pc \in [Reqs -> {"idle"} \cup Awaits \cup Outcomes] /\ req \in [Reqs -> Request]
      /\ ev \in Seq(Row) /\ Len(ev) <= MaxEvents
  BY DEF TInv, TimelineTypeOK
<1>2. pc' \in [Reqs -> {"idle"} \cup Awaits \cup Outcomes]
  BY <1>1
<1>3. Inserting' = Inserting \ {p}
  BY <1>1 DEF Inserting, Outcomes
<1>4. IsFiniteSet(Inserting) /\ Cardinality(Inserting) \in Nat /\ Len(ev) \in Nat /\ Len(ev') \in Nat /\ MaxEvents \in Nat
  BY <1>1, FS_CardinalityType, TimelineAssumption DEF TInv
<1>5. /\ IsFiniteSet(Inserting') /\ Cardinality(Inserting') \in Nat
      /\ Cardinality(Inserting') = IF p \in Inserting THEN Cardinality(Inserting) - 1 ELSE Cardinality(Inserting)
  BY <1>3, <1>4, FS_RemoveElement, FS_CardinalityType
<1>6. pc[p] = "insert" => p \in Inserting
  BY DEF Inserting
<1>7. Len(ev) + Cardinality(Inserting) <= MaxEvents
  BY DEF TInv
<1>8. Len(ev') + Cardinality(Inserting') <= MaxEvents
  BY <1>4, <1>5, <1>6, <1>7
<1>9. Len(ev') <= MaxEvents
  BY <1>4, <1>5, <1>8
<1>10. TimelineTypeOK'
  BY <1>1, <1>2, <1>9 DEF TimelineTypeOK
<1>11. \A x \in Reqs : pc'[x] = "commit" => Prepared(x)'
  <2> SUFFICES ASSUME NEW x \in Reqs, pc'[x] = "commit" PROVE Prepared(x)'
    OBVIOUS
  <2>1. pc[x] = "commit"
    BY <1>1 DEF Outcomes
  <2>2. QED
    BY <2>1 DEF Prepared, TInv
<1>12. QED
  BY <1>5, <1>8, <1>10, <1>11 DEF TInv

LEMMA BlankTyped ==
    /\ Blank \in Request
    /\ \A e \in Ids \cup {Null}, o \in Nat, l \in BOOLEAN :
          /\ [Blank EXCEPT !.order = o, !.last = l] \in Request
          /\ [Blank EXCEPT !.id = e, !.order = o] \in Request
          /\ [Blank EXCEPT !.id = e] \in Request
    /\ \A m \in MoveArgs, s \in Seq(Ids) :
          LET q == [Blank EXCEPT !.id = m.id, !.move = m, !.read = s]
          IN q \in Request /\ q.move = m /\ q.read = s
<1> DEFINE none == <<>>
<1>1. none \in Seq(Ids)
  OBVIOUS
<1>2. Blank = [id |-> Null, order |-> 0, last |-> FALSE, move |-> Null, read |-> none]
  BY DEF Blank
<1>3. \A m \in MoveArgs : m.id \in Ids
  BY DEF MoveArgs
<1> HIDE DEF none
<1> USE DEF Request
<1>4. Blank \in Request
  BY <1>1, <1>2
<1>5. ASSUME NEW e \in Ids \cup {Null}, NEW o \in Nat, NEW l \in BOOLEAN
      PROVE  /\ [Blank EXCEPT !.order = o, !.last = l] \in Request
             /\ [Blank EXCEPT !.id = e, !.order = o] \in Request
             /\ [Blank EXCEPT !.id = e] \in Request
  BY <1>1, <1>2
<1>6. ASSUME NEW m \in MoveArgs, NEW s \in Seq(Ids)
      PROVE  LET q == [Blank EXCEPT !.id = m.id, !.move = m, !.read = s]
             IN q \in Request /\ q.move = m /\ q.read = s
  BY <1>1, <1>2, <1>3
<1>7. QED
  BY <1>4, <1>5, <1>6

LEMMA MoveStep == ASSUME TInv, NEW p \in Reqs, NEW m \in MoveArgs, StartMove(p, m) PROVE TInv'
<1> DEFINE q == [Blank EXCEPT !.id = m.id, !.move = m, !.read = Stored]
           step == IF Moved(Stored, m) = Stored THEN "unmoved" ELSE "commit"
<1>1. Straight(Stored) /\ Stored \in Seq(Ids)
  BY StoredFacts DEF TInv
<1>2. Arrive(p, step, q)
  BY DEF StartMove
<1>3. q \in Request /\ q.move = m /\ q.read = Stored
  BY <1>1, BlankTyped
<1>4. step \in Awaits \cup {"unmoved"} /\ step # "insert" /\ (step = "commit" => Moved(Stored, m) # Stored)
  BY DEF Awaits
<1> HIDE DEF q, step
<1>5. QED
  BY <1>1, <1>2, <1>3, <1>4, ArriveStep

LEMMA StartStep == ASSUME TInv, NEW p \in Reqs, Start(p) PROVE TInv'
<1>0. TimelineTypeOK /\ Orders \subseteq Nat
  BY TimelineAssumption DEF TInv
<1>1. CASE StartCreate(p)
  <2>1. PICK o \in Orders \cup {Null} :
           /\ Len(ev) + Cardinality(Inserting) < MaxEvents
           /\ Arrive(p, "insert", [Blank EXCEPT !.order = IF o = Null THEN Cardinality(Live) ELSE o, !.last = (o = Null)])
    BY <1>1 DEF StartCreate, Inserting
  <2> DEFINE order == IF o = Null THEN Cardinality(Live) ELSE o
             last == (o = Null)
             q == [Blank EXCEPT !.order = order, !.last = last]
  <2>2. order \in Nat /\ last \in BOOLEAN /\ Null \in Ids \cup {Null}
    BY <1>0, Typed
  <2>3. Arrive(p, "insert", q)
    BY <2>1
  <2> HIDE DEF order, last
  <2>4. q \in Request
    BY <2>2, BlankTyped
  <2> HIDE DEF q
  <2>5. QED
    BY <2>1, <2>3, <2>4, ArriveStep DEF Awaits
<1>2. CASE StartEdit(p)
  <2>1. PICK e \in Live, o \in Orders \cup {Null} :
           Arrive(p, "place", [Blank EXCEPT !.id = e, !.order = IF o = Null THEN ev[e].order ELSE o])
    BY <1>2 DEF StartEdit
  <2> DEFINE order == IF o = Null THEN ev[e].order ELSE o
             q == [Blank EXCEPT !.id = e, !.order = order]
  <2>2. order \in Nat /\ e \in Ids \cup {Null}
    BY <1>0, Typed
  <2>3. Arrive(p, "place", q)
    BY <2>1
  <2> HIDE DEF order
  <2>4. q \in Request
    BY <2>2, BlankTyped
  <2> HIDE DEF q
  <2>5. QED
    BY <2>3, <2>4, ArriveStep DEF Awaits
<1>3. CASE StartDelete(p)
  <2>1. PICK e \in Live : Arrive(p, "delete", [Blank EXCEPT !.id = e])
    BY <1>3 DEF StartDelete
  <2>2. [Blank EXCEPT !.id = e] \in Request
    BY <1>0, Typed, BlankTyped
  <2>3. QED
    BY <2>1, <2>2, ArriveStep DEF Awaits
<1>4. CASE StartRevive(p)
  <2>1. PICK e \in DOMAIN ev \ Live : Arrive(p, "revive", [Blank EXCEPT !.id = e])
    BY <1>4 DEF StartRevive
  <2>2. [Blank EXCEPT !.id = e] \in Request
    BY <1>0, Typed, BlankTyped
  <2>3. QED
    BY <2>1, <2>2, ArriveStep DEF Awaits
<1>5. CASE AnyMove(p)
  <2>1. PICK e \in DOMAIN ev, a \in DOMAIN ev \cup {Null}, b \in DOMAIN ev \cup {Null} :
           StartMove(p, [id |-> e, after |-> a, before |-> b])
    BY <1>5 DEF AnyMove
  <2>2. [id |-> e, after |-> a, before |-> b] \in MoveArgs
    BY <1>0, Typed DEF MoveArgs
  <2>3. QED
    BY <2>1, <2>2, MoveStep
<1>6. QED
  BY <1>1, <1>2, <1>3, <1>4, <1>5 DEF Start

LEMMA RowMarked == \A r \in Row, v \in BOOLEAN : [r EXCEPT !.deleted = v] \in Row
BY DEF Row

\* What a request that is served writes.
LEMMA ServeStep == ASSUME TInv, NEW p \in Reqs, Serve(p) PROVE TInv'
<1>1. /\ ev \in Seq(Row) /\ Len(ev) \in Nat /\ DOMAIN ev = 1 .. Len(ev)
      /\ \A e \in DOMAIN ev : ev[e] = [order |-> ev[e].order, deleted |-> ev[e].deleted] /\ ev[e].order \in Nat /\ ev[e].deleted \in BOOLEAN
      /\ \A e \in DOMAIN ev : ev[e] \in Row
      /\ req[p] \in Request /\ req[p].order \in Nat
  <2>1. TimelineTypeOK /\ ev \in Seq(Row) /\ req[p] \in Request
    BY DEF TInv, TimelineTypeOK
  <2>2. \A r \in Row : r = [order |-> r.order, deleted |-> r.deleted]
    BY DEF Row
  <2>3. req[p].order \in Nat
    BY <2>1 DEF Request
  <2>4. QED
    BY <2>1, <2>2, <2>3, Typed
<1>2. CASE Insert(p)
  <2> DEFINE row == [order |-> req[p].order, deleted |-> FALSE]
  <2>1. pc[p] = "insert" /\ pc' = [pc EXCEPT ![p] = "ok"] /\ ev' = Append(ev, row) /\ req' = req
    BY <1>2 DEF Insert, Finish
  <2>2. row \in Row
    BY <1>1 DEF Row
  <2> HIDE DEF row
  <2>3. ev' \in Seq(Row) /\ Len(ev') = Len(ev) + 1
    BY <1>1, <2>1, <2>2, AppendProperties
  <2>4. QED
    BY <2>1, <2>3, LeaveStep DEF Awaits, Outcomes
<1>3. ASSUME NEW step \in Awaits, NEW outcome \in Outcomes, NEW rows, Finish(p, step, outcome, rows),
             DOMAIN rows = 1 .. Len(ev), rows = [e \in 1 .. Len(ev) |-> rows[e]], \A e \in DOMAIN ev : rows[e] \in Row
      PROVE  TInv'
  <2>1. pc[p] = step /\ pc' = [pc EXCEPT ![p] = outcome] /\ ev' = rows /\ req' = req
    BY <1>3 DEF Finish
  <2>2. rows \in [1 .. Len(ev) -> Row]
    BY <1>1, <1>3
  <2>3. rows \in Seq(Row) /\ Len(rows) = Len(ev)
    BY <1>1, <2>2
  <2>4. QED
    BY <2>1, <2>3, LeaveStep
<1>4. CASE Place(p)
  <2> DEFINE rows == [ev EXCEPT ![req[p].id].order = req[p].order]
  <2>1. Finish(p, "place", "ok", rows)
    BY <1>4 DEF Place
  <2>2. DOMAIN rows = 1 .. Len(ev) /\ rows = [e \in 1 .. Len(ev) |-> rows[e]]
    BY <1>1
  <2>3. \A e \in DOMAIN ev : rows[e] \in Row
    BY <1>1 DEF Row
  <2> HIDE DEF rows
  <2>4. QED
    BY <1>3, <2>1, <2>2, <2>3 DEF Awaits, Outcomes
<1>5. CASE Delete(p)
  <2> DEFINE rows == [ev EXCEPT ![req[p].id].deleted = TRUE]
  <2>1. Finish(p, "delete", "ok", rows)
    BY <1>5 DEF Delete
  <2>2. DOMAIN rows = 1 .. Len(ev) /\ rows = [e \in 1 .. Len(ev) |-> rows[e]]
    BY <1>1
  <2>3. \A e \in DOMAIN ev : rows[e] \in Row
    <3> SUFFICES ASSUME NEW e \in DOMAIN ev PROVE rows[e] \in Row
      OBVIOUS
    <3>1. ev[e] \in Row
      BY <1>1
    <3>2. [ev[e] EXCEPT !.deleted = TRUE] \in Row
      BY <3>1, RowMarked
    <3>3. rows[e] = IF e = req[p].id THEN [ev[e] EXCEPT !.deleted = TRUE] ELSE ev[e]
      BY <1>1
    <3>4. QED
      BY <3>1, <3>2, <3>3
  <2> HIDE DEF rows
  <2>4. QED
    BY <1>3, <2>1, <2>2, <2>3 DEF Awaits, Outcomes
<1>6. CASE Revive(p)
  <2> DEFINE rows == [ev EXCEPT ![req[p].id].deleted = FALSE]
  <2>1. Finish(p, "revive", "ok", rows)
    BY <1>6 DEF Revive
  <2>2. DOMAIN rows = 1 .. Len(ev) /\ rows = [e \in 1 .. Len(ev) |-> rows[e]]
    BY <1>1
  <2>3. \A e \in DOMAIN ev : rows[e] \in Row
    <3> SUFFICES ASSUME NEW e \in DOMAIN ev PROVE rows[e] \in Row
      OBVIOUS
    <3>1. ev[e] \in Row
      BY <1>1
    <3>2. [ev[e] EXCEPT !.deleted = FALSE] \in Row
      BY <3>1, RowMarked
    <3>3. rows[e] = IF e = req[p].id THEN [ev[e] EXCEPT !.deleted = FALSE] ELSE ev[e]
      BY <1>1
    <3>4. QED
      BY <3>1, <3>2, <3>3
  <2> HIDE DEF rows
  <2>4. QED
    BY <1>3, <2>1, <2>2, <2>3 DEF Awaits, Outcomes
<1>7. CASE Commit(p)
  <2> DEFINE next == Moved(req[p].read, req[p].move)
             rows == [e \in DOMAIN ev |-> IF e \in ToSet(next) THEN [ev[e] EXCEPT !.order = PlaceOf(next, e) - 1] ELSE ev[e]]
  <2>1. Finish(p, "commit", "moved", rows) /\ pc[p] = "commit"
    BY <1>7 DEF Commit
  <2>2. Straight(next)
    BY <2>1, MovedFacts DEF TInv, Prepared
  <2> HIDE DEF next
  <2>3. \A e \in ToSet(next) : PlaceOf(next, e) - 1 \in Nat
    BY <2>2, PlaceFacts, StraightFacts
  <2>4. DOMAIN rows = 1 .. Len(ev) /\ rows = [e \in 1 .. Len(ev) |-> rows[e]]
    BY <1>1
  <2>5. \A e \in DOMAIN ev : rows[e] \in Row
    BY <1>1, <2>3 DEF Row
  <2> HIDE DEF rows
  <2>6. QED
    BY <1>3, <2>1, <2>4, <2>5 DEF Awaits, Outcomes
<1>8. QED
  BY <1>2, <1>4, <1>5, <1>6, <1>7 DEF Serve

LEMMA FailStep == ASSUME TInv, NEW p \in Reqs, Fail(p) PROVE TInv'
<1>1. ev' = ev /\ req' = req /\ pc[p] \in Awaits /\ pc' = [pc EXCEPT ![p] = "failed"]
  BY DEF Fail
<1>2. ev' \in Seq(Row) /\ Len(ev') = Len(ev)
  BY <1>1 DEF TInv, TimelineTypeOK
<1>3. QED
  BY <1>1, <1>2, LeaveStep DEF Outcomes

LEMMA TimelineStutter == ASSUME TInv, UNCHANGED tvars PROVE TInv'
<1>1. ev' = ev /\ pc' = pc /\ req' = req
  BY DEF tvars
<1>2. QED
  BY <1>1 DEF TInv, TimelineTypeOK, Inserting, Prepared

(***************************************************************************)
(* The list and the order it is about to have.                             *)
(***************************************************************************)
LEMMA FilteredFacts ==
    ASSUME NEW F, Straight(F)
    PROVE  /\ Straight(Filtered(F)) /\ ToSet(Filtered(F)) = ToSet(F) \cap Visible
           /\ \A x, y \in ToSet(F) \cap Visible : <<x, y>> \in Before(Filtered(F)) <=> <<x, y>> \in Before(F)
BY OnlyFacts DEF Filtered

\* s is what the filter lets through of F, but for the place of e.
Carries(s, e, F) ==
    /\ Straight(s) /\ ToSet(s) = ToSet(F) \cap Visible /\ e \in ToSet(s)
    /\ \A x, y \in ToSet(s) \ {e} : <<x, y>> \in Before(s) <=> <<x, y>> \in Before(F)

LEMMA CarriesFrom == ASSUME NEW F, Straight(F), NEW e \in ToSet(Filtered(F)) PROVE Carries(Filtered(F), e, F)
BY FilteredFacts DEF Carries

LEMMA CarriesOn ==
    ASSUME NEW F, NEW s, NEW e, Carries(s, e, F), NEW i \in 1 .. Len(Without(s, e)) + 1
    PROVE  Carries(Replaced(s, e, i), e, F)
<1> DEFINE t == Replaced(s, e, i)
<1>1. Straight(s) /\ ToSet(s) \cup {e} = ToSet(s)
  BY DEF Carries
<1>2. /\ Straight(t) /\ ToSet(t) = ToSet(s)
      /\ \A x, y \in ToSet(s) \ {e} : <<x, y>> \in Before(t) <=> <<x, y>> \in Before(s)
  BY <1>1, ReplacedFacts
<1> HIDE DEF t
<1>3. Carries(t, e, F)
  BY <1>2 DEF Carries
<1>4. QED
  BY <1>3 DEF t

\* The neighbours a list tells of e.
Told(e, s) == [id |-> e, after |-> Neighbour(s, PlaceOf(s, e) - 1), before |-> Neighbour(s, PlaceOf(s, e) + 1)]

\* What comes before e in the list is its neighbour and what comes before that.
LEMMA ToldAfter ==
    ASSUME NEW s, Straight(s), Null \notin ToSet(s), NEW e \in ToSet(s), Told(e, s).after # Null
    PROVE  /\ Told(e, s).after \in ToSet(s) \ {e}
           /\ \A x \in ToSet(s) \ {e} :
                 <<x, e>> \in Before(s) <=> x = Told(e, s).after \/ <<x, Told(e, s).after>> \in Before(s)
<1> DEFINE i == PlaceOf(s, e)
           a == Told(e, s).after
<1>1. DOMAIN s = 1 .. Len(s) /\ Len(s) \in Nat /\ i \in DOMAIN s /\ s[i] = e
  BY StraightFacts, PlaceFacts
<1>2. a = Neighbour(s, i - 1)
  BY DEF Told
<1> HIDE DEF a, i
<1>3. i - 1 \in DOMAIN s /\ a = s[i - 1]
  BY <1>2 DEF Neighbour, a
<1>4. a \in ToSet(s) /\ a # e
  <2>1. i - 1 # i
    BY <1>1
  <2>2. QED
    BY <1>1, <1>3, <2>1, StraightFacts
<1>5. ASSUME NEW x \in ToSet(s) \ {e} PROVE <<x, e>> \in Before(s) <=> x = a \/ <<x, a>> \in Before(s)
  <2>1. PICK k \in DOMAIN s : s[k] = x
    BY StraightFacts
  <2>2. <<x, e>> \in Before(s) <=> k < i
    BY <1>1, <2>1, BeforeMeans
  <2>3. <<x, a>> \in Before(s) <=> k < i - 1
    BY <1>3, <2>1, BeforeMeans
  <2>4. x = a <=> k = i - 1
    BY <1>3, <2>1, StraightFacts
  <2>5. k < i <=> k = i - 1 \/ k < i - 1
    BY <1>1, <2>1
  <2>6. QED
    BY <2>2, <2>3, <2>4, <2>5
<1>6. QED
  BY <1>4, <1>5 DEF a

\* The first has only one behind it, and nothing before it.
LEMMA ToldFirst ==
    ASSUME NEW s, Straight(s), Null \notin ToSet(s), NEW e \in ToSet(s), Told(e, s).after = Null
    PROVE  /\ Told(e, s).before # Null => Told(e, s).before \in ToSet(s) \ {e}
           /\ \A x \in ToSet(s) \ {e} : <<x, e>> \notin Before(s) /\ Told(e, s).before # Null
                                        /\ <<x, Told(e, s).before>> \notin Before(s)
<1> DEFINE i == PlaceOf(s, e)
           b == Told(e, s).before
<1>1. DOMAIN s = 1 .. Len(s) /\ Len(s) \in Nat /\ i \in DOMAIN s /\ s[i] = e
  BY StraightFacts, PlaceFacts
<1>2. b = Neighbour(s, i + 1) /\ Neighbour(s, i - 1) = Null
  BY DEF Told
<1> HIDE DEF b, i
<1>3. i = 1
  <2>1. ASSUME i - 1 \in DOMAIN s PROVE FALSE
    BY <1>2, <2>1, StraightFacts DEF Neighbour
  <2>2. QED
    BY <1>1, <2>1
<1>4. ASSUME 2 \in DOMAIN s PROVE b = s[2] /\ b \in ToSet(s) \ {e} /\ b # Null
  <2>1. b = s[2]
    BY <1>2, <1>3, <1>4 DEF Neighbour
  <2>2. QED
    BY <1>1, <1>3, <1>4, <2>1, StraightFacts
<1>5. 2 \notin DOMAIN s => b = Null
  BY <1>2, <1>3 DEF Neighbour
<1>6. ASSUME NEW x \in ToSet(s) \ {e} PROVE <<x, e>> \notin Before(s) /\ b # Null /\ <<x, b>> \notin Before(s)
  <2>1. PICK k \in DOMAIN s : s[k] = x
    BY StraightFacts
  <2>2. k # 1 /\ k \in 1 .. Len(s)
    BY <1>1, <1>3, <2>1
  <2>3. 2 \in DOMAIN s /\ ~(k < 1) /\ ~(k < 2)
    BY <1>1, <2>2
  <2>4. <<x, e>> \in Before(s) <=> k < 1
    BY <1>1, <1>3, <2>1, BeforeMeans
  <2>5. <<x, b>> \in Before(s) <=> k < 2
    BY <1>4, <2>1, <2>3, BeforeMeans
  <2>6. QED
    BY <1>4, <2>3, <2>4, <2>5
<1>7. QED
  BY <1>4, <1>5, <1>6 DEF b

\* The server works out of the two neighbours the very order that the list shows: between them
\* may be events the filter hides, and the order it works on is not the one the list was drawn from.
LEMMA ToldIsDone ==
    ASSUME NEW F, Straight(F), Null \notin ToSet(F), NEW s, NEW e, Carries(s, e, F)
    PROVE  IF Told(e, s).after = Null /\ Told(e, s).before = Null THEN s = Filtered(F)
           ELSE s = Filtered(Moved(F, Told(e, s)))
<1> DEFINE m == Told(e, s)
           t == Moved(F, m)
<1>0. /\ Straight(s) /\ ToSet(s) = ToSet(F) \cap Visible /\ e \in ToSet(s) /\ Null \notin ToSet(s)
      /\ \A x, y \in ToSet(s) \ {e} : <<x, y>> \in Before(s) <=> <<x, y>> \in Before(F)
  BY DEF Carries
<1>1. m.id = e /\ e \in ToSet(F)
  BY <1>0 DEF Told
<1>2. /\ Straight(t) /\ ToSet(t) = ToSet(F)
      /\ \A x, y \in ToSet(F) \ {e} : <<x, y>> \in Before(t) <=> <<x, y>> \in Before(F)
  BY <1>1, MovedFacts
<1> HIDE DEF t
<1>3. ASSUME m.after # Null, NEW x \in ToSet(s) \ {e} PROVE <<x, e>> \in Before(t) <=> <<x, e>> \in Before(s)
  <2>1. /\ m.after \in ToSet(s) \ {e}
        /\ <<x, e>> \in Before(s) <=> x = m.after \/ <<x, m.after>> \in Before(s)
    BY <1>0, <1>3, ToldAfter
  <2> HIDE DEF m
  <2>2. Follows(F, m) /\ x \in ToSet(F) \ {m.id}
    BY <1>0, <1>1, <1>3, <2>1 DEF Follows
  <2>3. <<x, e>> \in Before(t) <=> x = m.after \/ <<x, m.after>> \in Before(F)
    BY <1>1, <2>2, MovedBehind DEF t
  <2>4. <<x, m.after>> \in Before(s) <=> <<x, m.after>> \in Before(F)
    BY <1>0, <1>3, <2>1
  <2>5. QED
    BY <2>1, <2>3, <2>4
<1>4. ASSUME m.after = Null, NEW x \in ToSet(s) \ {e} PROVE <<x, e>> \notin Before(t) /\ <<x, e>> \notin Before(s) /\ m.before # Null
  <2>1. /\ m.before \in ToSet(s) \ {e} /\ m.before # Null
        /\ <<x, e>> \notin Before(s) /\ <<x, m.before>> \notin Before(s)
    BY <1>0, <1>4, ToldFirst
  <2> HIDE DEF m
  <2>2. Leads(F, m) /\ x \in ToSet(F) \ {m.id}
    BY <1>0, <1>1, <1>4, <2>1 DEF Leads
  <2>3. <<x, e>> \in Before(t) <=> <<x, m.before>> \in Before(F)
    BY <1>1, <2>2, MovedAhead DEF t
  <2>4. <<x, m.before>> \in Before(s) <=> <<x, m.before>> \in Before(F)
    BY <1>0, <1>4, <2>1
  <2>5. QED
    BY <2>1, <2>3, <2>4
<1>5. \A x \in ToSet(s) \ {e} : <<x, e>> \in Before(t) <=> <<x, e>> \in Before(s)
  BY <1>3, <1>4
<1>6. s = Filtered(t)
  <2>1. /\ Straight(Filtered(t)) /\ ToSet(Filtered(t)) = ToSet(s)
        /\ \A x, y \in ToSet(s) : <<x, y>> \in Before(Filtered(t)) <=> <<x, y>> \in Before(t)
    BY <1>0, <1>2, FilteredFacts
  <2>2. Linear(ToSet(s), Before(s)) /\ Linear(ToSet(t), Before(t))
    BY <1>0, <1>2, BeforeLinear
  <2>3. ASSUME NEW x \in ToSet(s), NEW y \in ToSet(s), <<x, y>> \in Before(s) PROVE <<x, y>> \in Before(t)
    <3>1. x # y /\ x \in ToSet(t) /\ y \in ToSet(t) /\ x \in ToSet(F) /\ y \in ToSet(F)
      BY <1>0, <1>2, <2>2, <2>3 DEF Linear
    <3>2. CASE y = e
      BY <1>5, <2>3, <3>1, <3>2
    <3>3. CASE x = e
      <4>1. <<y, e>> \notin Before(s)
        BY <2>2, <2>3, <3>1, <3>3 DEF Linear
      <4>2. <<y, e>> \notin Before(t)
        BY <1>5, <3>1, <3>3, <4>1
      <4>3. QED
        BY <2>2, <3>1, <3>3, <4>2 DEF Linear
    <3>4. CASE x # e /\ y # e
      BY <1>0, <1>2, <2>3, <3>1, <3>4
    <3>5. QED
      BY <3>2, <3>3, <3>4
  <2>4. \A x, y \in ToSet(s) : <<x, y>> \in Before(s) => <<x, y>> \in Before(Filtered(t))
    BY <2>1, <2>3
  <2>5. QED
    BY <1>0, <2>1, <2>4, SameOrder
<1>7. CASE m.after = Null /\ m.before = Null
  <2>1. ToSet(s) \ {e} = {}
    BY <1>4, <1>7
  <2>2. Straight(Filtered(F)) /\ ToSet(Filtered(F)) = ToSet(s)
    BY <1>0, FilteredFacts
  <2>3. \A x, y \in ToSet(s) : <<x, y>> \notin Before(s)
    BY <1>0, <2>1, BeforeLinear DEF Linear
  <2>4. s = Filtered(F)
    BY <1>0, <2>2, <2>3, SameOrder
  <2>5. QED
    BY <1>7, <2>4
<1>8. QED
  BY <1>6, <1>7 DEF t

LEMMA CommittedIs ==
    \A e, s : Committed(e, s) = IF Told(e, s).after = Null /\ Told(e, s).before = Null THEN queue
                                ELSE Append(queue, Told(e, s))
BY DEF Committed, Told

LEMMA NullIsNoEvent == Null \notin Ids
BY TimelineAssumption DEF Ids

LEMMA CommittedTyped ==
    ASSUME queue \in Seq(MoveArgs), NEW s, Straight(s), ToSet(s) \subseteq Ids, NEW e \in ToSet(s)
    PROVE  Told(e, s) \in MoveArgs /\ Committed(e, s) \in Seq(MoveArgs)
<1>1. \A j : Neighbour(s, j) \in Ids \cup {Null}
  BY StraightFacts DEF Neighbour
<1>2. Told(e, s) \in MoveArgs
  BY <1>1 DEF Told, MoveArgs
<1>3. Append(queue, Told(e, s)) \in Seq(MoveArgs)
  BY <1>2, AppendProperties
<1>4. QED
  BY <1>2, <1>3, CommittedIs

(***************************************************************************)
(* The inductive invariant of the list.                                    *)
(***************************************************************************)
ListOf(s) == Straight(s) /\ ToSet(s) \subseteq Ids

LInv ==
    /\ TInv
    /\ ListOf(items) /\ ListOf(shown) /\ ListOf(drawn)
    /\ drag \in Ids \cup {Null} /\ dirty \in BOOLEAN
    /\ queue \in Seq(MoveArgs)
    /\ serving \in Reqs \cup {Null}
    /\ disturbed \in BOOLEAN

LEMMA StoredListed == ASSUME TInv PROVE ListOf(Stored) /\ ListOf(Filtered(Stored))
<1>1. Straight(Stored) /\ ToSet(Stored) \subseteq Ids
  BY StoredFacts, Typed DEF TInv
<1>2. QED
  BY <1>1, FilteredFacts DEF ListOf

LEMMA LInit == ListInit => LInv
<1> SUFFICES ASSUME ListInit PROVE LInv
  OBVIOUS
<1>1. TInv
  BY TInit DEF ListInit
<1>2. ListOf(Filtered(Stored))
  BY <1>1, StoredListed
<1>3. items = Filtered(Stored) /\ shown = items /\ drawn = items
  BY DEF ListInit
<1>4. drag = Null /\ dirty = FALSE /\ serving = Null /\ disturbed = FALSE /\ queue = <<>>
  BY DEF ListInit
<1>5. <<>> \in Seq(MoveArgs)
  OBVIOUS
<1>6. QED
  BY <1>1, <1>2, <1>3, <1>4, <1>5 DEF LInv

\* Where a card may be put.
LEMMA PlacesToDrop ==
    ASSUME LInv, NEW e \in Ids
    PROVE  /\ \A i : i = Len(Without(shown, e)) + 1 \/ i \in DOMAIN Without(shown, e)
                     => i \in 1 .. Len(Without(shown, e)) + 1
           /\ e \in ToSet(shown) => \A i \in DOMAIN shown : i \in 1 .. Len(Without(shown, e)) + 1
           /\ \A i \in 1 .. Len(Without(shown, e)) + 1 :
                 ListOf(Replaced(shown, e, i)) /\ ToSet(Replaced(shown, e, i)) = ToSet(shown) \cup {e}
<1> DEFINE rest == Without(shown, e)
<1>1. Straight(shown) /\ ToSet(shown) \subseteq Ids
  BY DEF LInv, ListOf
<1>2. Straight(rest) /\ Len(rest) \in Nat /\ (e \in ToSet(shown) => Len(rest) + 1 = Len(shown))
  BY <1>1, WithoutFacts
<1> HIDE DEF rest
<1>3. DOMAIN rest = 1 .. Len(rest) /\ DOMAIN shown = 1 .. Len(shown)
  BY <1>1, <1>2, StraightFacts
<1>4. \A i : i = Len(rest) + 1 \/ i \in DOMAIN rest => i \in 1 .. Len(rest) + 1
  <2>1. Len(rest) + 1 \in 1 .. Len(rest) + 1
    BY <1>2
  <2>2. \A i \in 1 .. Len(rest) : i \in 1 .. Len(rest) + 1
    BY <1>2
  <2>3. QED
    BY <1>3, <2>1, <2>2
<1>5. e \in ToSet(shown) => \A i \in DOMAIN shown : i \in 1 .. Len(rest) + 1
  BY <1>2, <1>3
<1>6. ASSUME NEW i \in 1 .. Len(rest) + 1
      PROVE  ListOf(Replaced(shown, e, i)) /\ ToSet(Replaced(shown, e, i)) = ToSet(shown) \cup {e}
  <2>1. Straight(Replaced(shown, e, i)) /\ ToSet(Replaced(shown, e, i)) = ToSet(shown) \cup {e}
    BY <1>1, <1>6, ReplacedFacts DEF rest
  <2>2. ToSet(shown) \cup {e} \subseteq Ids
    BY <1>1
  <2>3. QED
    BY <2>1, <2>2 DEF ListOf
<1>7. QED
  BY <1>4, <1>5, <1>6 DEF rest

LEMMA KeyTyped == ASSUME LInv, NEW e \in Ids, NEW i \in Ids, Key(e, i) PROVE LInv'
<1> DEFINE next == Replaced(shown, e, i)
<1>1. /\ shown' = next /\ drawn' = next /\ queue' = Committed(e, next)
      /\ disturbed' = (disturbed \/ drag # Null) /\ UNCHANGED <<tvars, items, drag, dirty, serving>>
      /\ e \in ToSet(shown) /\ i \in DOMAIN shown
  BY DEF Key
<1>2. ListOf(next) /\ e \in ToSet(next)
  BY <1>1, PlacesToDrop
<1> HIDE DEF next
<1>3. queue' \in Seq(MoveArgs)
  BY <1>1, <1>2, CommittedTyped DEF ListOf, LInv
<1>4. TInv'
  BY <1>1, TimelineStutter DEF LInv
<1>5. disturbed' \in BOOLEAN
  BY <1>1
<1>6. items' = items /\ drag' = drag /\ dirty' = dirty /\ serving' = serving
  BY <1>1
<1>7. QED
  BY <1>1, <1>2, <1>3, <1>4, <1>5, <1>6 DEF LInv, ListOf

LEMMA DragTyped == ASSUME LInv, NEW i \in Ids, DragTo(i) PROVE LInv'
<1> DEFINE next == Replaced(shown, drag, i)
           rest == Without(shown, drag)
<1>1. /\ shown' = next /\ drawn' = next /\ dirty' = TRUE
      /\ UNCHANGED <<tvars, items, drag, queue, serving, disturbed>>
      /\ drag \in Cards /\ (i = Len(rest) + 1 \/ i \in DOMAIN rest)
  BY DEF DragTo
<1>2. drag \in Ids
  BY <1>1 DEF Cards, LInv, ListOf
<1>3. ListOf(next)
  BY <1>1, <1>2, PlacesToDrop
<1> HIDE DEF next
<1>4. TInv'
  BY <1>1, TimelineStutter DEF LInv
<1>5. items' = items /\ drag' = drag /\ queue' = queue /\ serving' = serving /\ disturbed' = disturbed
  BY <1>1
<1>6. QED
  BY <1>1, <1>3, <1>4, <1>5 DEF LInv, ListOf

LEMMA DispatchTyped == ASSUME LInv, NEW p \in Reqs, Dispatch(p) PROVE LInv'
<1>1. /\ queue # <<>> /\ StartMove(p, Head(queue)) /\ serving' = p /\ queue' = Tail(queue)
      /\ items' = items /\ shown' = shown /\ drawn' = drawn /\ drag' = drag /\ dirty' = dirty /\ disturbed' = disturbed
  BY DEF Dispatch
<1>2. Head(queue) \in MoveArgs /\ Tail(queue) \in Seq(MoveArgs)
  BY <1>1, HeadTailProperties DEF LInv
<1>3. TInv'
  BY <1>1, <1>2, MoveStep DEF LInv
<1>4. QED
  BY <1>1, <1>2, <1>3 DEF LInv, ListOf

LEMMA AnswerTyped == ASSUME LInv, Answer PROVE LInv'
<1>1. /\ items' \in {Filtered(Stored), items} /\ shown' \in {<<>>, shown} /\ serving' = Null
      /\ UNCHANGED tvars
      /\ drawn' = drawn /\ drag' = drag /\ dirty' = dirty /\ queue' = queue /\ disturbed' = disturbed
  BY DEF Answer
<1>2. TInv'
  BY <1>1, TimelineStutter DEF LInv
<1>3. ListOf(<<>>)
  <2>1. ToSet(<<>>) = {} /\ DOMAIN <<>> = {}
    BY DEF ToSet
  <2>2. Straight(<<>>)
    BY <2>1 DEF Straight
  <2>3. QED
    BY <2>1, <2>2 DEF ListOf
<1>4. ListOf(items') /\ ListOf(shown')
  BY <1>1, <1>3, StoredListed DEF LInv
<1>5. QED
  BY <1>1, <1>2, <1>4 DEF LInv, ListOf

LEMMA ListTyped == LInv /\ [ListNext]_vars => LInv'
<1> SUFFICES ASSUME LInv, [ListNext]_vars PROVE LInv'
  OBVIOUS
<1> USE DEF ListOf
<1>1. ASSUME NEW e \in Ids, Grab(e) PROVE LInv'
  <2>1. /\ drag' = e /\ dirty' = FALSE /\ UNCHANGED tvars
        /\ items' = items /\ shown' = shown /\ drawn' = drawn /\ queue' = queue /\ serving' = serving /\ disturbed' = disturbed
    BY <1>1 DEF Grab
  <2>2. TInv'
    BY <2>1, TimelineStutter DEF LInv
  <2>3. QED
    BY <2>1, <2>2 DEF LInv
<1>2. CASE Drop
  <2>1. /\ drag' = Null /\ UNCHANGED tvars
        /\ queue' = IF dirty /\ drag \in ToSet(shown) THEN Committed(drag, shown) ELSE queue
        /\ items' = items /\ shown' = shown /\ drawn' = drawn /\ dirty' = dirty /\ serving' = serving /\ disturbed' = disturbed
    BY <1>2 DEF Drop
  <2>2. TInv'
    BY <2>1, TimelineStutter DEF LInv
  <2>3. queue' \in Seq(MoveArgs)
    BY <2>1, CommittedTyped DEF LInv
  <2>4. QED
    BY <2>1, <2>2, <2>3 DEF LInv
<1>3. ASSUME NEW p \in Reqs, Others(p) PROVE LInv'
  <2>1. /\ Start(p) /\ disturbed' = TRUE
        /\ items' = items /\ shown' = shown /\ drawn' = drawn /\ drag' = drag /\ dirty' = dirty /\ queue' = queue /\ serving' = serving
    BY <1>3 DEF Others
  <2>2. TInv'
    BY <2>1, StartStep DEF LInv
  <2>3. QED
    BY <2>1, <2>2 DEF LInv
<1>4. ASSUME NEW p \in Reqs, Server(p) PROVE LInv'
  <2>1. /\ Serve(p) /\ disturbed' = disturbed
        /\ items' = items /\ shown' = shown /\ drawn' = drawn /\ drag' = drag /\ dirty' = dirty /\ queue' = queue /\ serving' = serving
    BY <1>4 DEF Server, lvars
  <2>2. TInv'
    BY <2>1, ServeStep DEF LInv
  <2>3. QED
    BY <2>1, <2>2 DEF LInv
<1>5. ASSUME NEW p \in Reqs, Failure(p) PROVE LInv'
  <2>1. /\ Fail(p) /\ disturbed' = TRUE
        /\ items' = items /\ shown' = shown /\ drawn' = drawn /\ drag' = drag /\ dirty' = dirty /\ queue' = queue /\ serving' = serving
    BY <1>5 DEF Failure
  <2>2. TInv'
    BY <2>1, FailStep DEF LInv
  <2>3. QED
    BY <2>1, <2>2 DEF LInv
<1>6. CASE Refresh
  <2>1. /\ items' = Filtered(Stored) /\ UNCHANGED tvars
        /\ shown' = shown /\ drawn' = drawn /\ drag' = drag /\ dirty' = dirty /\ queue' = queue /\ serving' = serving /\ disturbed' = disturbed
    BY <1>6 DEF Refresh
  <2>2. TInv' /\ ListOf(Filtered(Stored))
    BY <2>1, TimelineStutter, StoredListed DEF LInv
  <2>3. QED
    BY <2>1, <2>2 DEF LInv
<1>7. CASE Sync
  <2>1. /\ shown' = items /\ drawn' = items /\ UNCHANGED tvars
        /\ items' = items /\ drag' = drag /\ dirty' = dirty /\ queue' = queue /\ serving' = serving /\ disturbed' = disturbed
    BY <1>7 DEF Sync
  <2>2. TInv'
    BY <2>1, TimelineStutter DEF LInv
  <2>3. QED
    BY <2>1, <2>2 DEF LInv
<1>8. CASE UNCHANGED vars
  <2>1. /\ UNCHANGED tvars
        /\ shown' = shown /\ drawn' = drawn
        /\ items' = items /\ drag' = drag /\ dirty' = dirty /\ queue' = queue /\ serving' = serving /\ disturbed' = disturbed
    BY <1>8 DEF vars, lvars
  <2>2. TInv'
    BY <2>1, TimelineStutter DEF LInv
  <2>3. QED
    BY <2>1, <2>2 DEF LInv
<1>9. QED
  BY <1>1, <1>2, <1>3, <1>4, <1>5, <1>6, <1>7, <1>8, KeyTyped, DragTyped, DispatchTyped, AnswerTyped DEF ListNext

\* Events, requests and lists are typed, and no list shows an event twice: nobody can be made
\* an event too many, and what the list sends is always a move.
THEOREM ListsAreTyped == ListSpec => []ListTypeOK
<1>1. ListInit => LInv
  BY LInit
<1>2. LInv /\ [ListNext]_vars => LInv'
  BY ListTyped
<1>3. LInv => ListTypeOK
  <2>1. \A s : ListOf(s) => s \in Seq(Ids) /\ \A i, j \in DOMAIN s : s[i] = s[j] => i = j
    BY SeqMonotonic DEF ListOf, Straight
  <2>2. QED
    BY <2>1 DEF LInv, ListTypeOK, TInv
<1>4. QED
  BY <1>1, <1>2, <1>3, PTL DEF ListSpec

(***************************************************************************)
(* Moves that are committed to the database.                               *)
(***************************************************************************)

\* The rows of a committed move are those it was worked out from, in the order it made of them.
LEMMA CommitStores ==
    ASSUME TInv, TInv', NEW p \in Reqs, Commit(p), Stored = req[p].read
    PROVE  Stored' = Moved(Stored, req[p].move) /\ Live' = Live /\ Prepared(p)
<1> DEFINE next == Moved(req[p].read, req[p].move)
<1>1. /\ pc[p] = "commit"
      /\ ev' = [e \in DOMAIN ev |-> IF e \in ToSet(next) THEN [ev[e] EXCEPT !.order = PlaceOf(next, e) - 1] ELSE ev[e]]
  BY DEF Commit, Finish
<1>2. Straight(Stored) /\ ToSet(Stored) = Live /\ Live \subseteq DOMAIN ev
      /\ \A e \in DOMAIN ev : ev[e] \in Row
  BY StoredFacts, Typed DEF TInv
<1>3. Straight(next) /\ ToSet(next) = Live
  BY <1>2, MovedFacts
<1> HIDE DEF next
<1>4. DOMAIN ev' = DOMAIN ev
  BY <1>1
<1>5. ASSUME NEW e \in DOMAIN ev
      PROVE  ev'[e].deleted = ev[e].deleted /\ (e \in ToSet(next) => ev'[e].order = PlaceOf(next, e) - 1)
  <2>1. ev'[e] = IF e \in ToSet(next) THEN [ev[e] EXCEPT !.order = PlaceOf(next, e) - 1] ELSE ev[e]
    BY <1>1
  <2>2. \A o : \A r \in Row : [r EXCEPT !.order = o].order = o /\ [r EXCEPT !.order = o].deleted = r.deleted
    BY DEF Row
  <2>3. QED
    BY <1>2, <2>1, <2>2
<1>6. Live' = Live
  <2>1. \A e \in DOMAIN ev : ~ev'[e].deleted <=> ~ev[e].deleted
    BY <1>5
  <2>2. QED
    BY <1>4, <2>1 DEF Live
<1>7. Sorted(next, Ordered')
  <2> SUFFICES ASSUME NEW i \in DOMAIN next, NEW j \in DOMAIN next, i < j PROVE <<next[i], next[j]>> \in Ordered'
    BY DEF Sorted
  <2> DEFINE x == next[i]
             y == next[j]
  <2>1. x \in Live /\ y \in Live /\ PlaceOf(next, x) = i /\ PlaceOf(next, y) = j
    BY <1>3, StraightFacts, PlaceFacts
  <2> HIDE DEF x, y
  <2>2. ev'[x].order = i - 1 /\ ev'[y].order = j - 1
    BY <1>2, <1>3, <1>5, <2>1
  <2>3. i \in Nat /\ j \in Nat
    BY <1>3, StraightFacts
  <2>4. ev'[x].order < ev'[y].order
    BY <2>2, <2>3
  <2>5. <<x, y>> \in Ordered'
    BY <1>6, <2>1, <2>4 DEF Ordered, Sooner
  <2>6. QED
    BY <2>5 DEF x, y
<1>8. Linear(Live', Ordered') /\ Stored' = InOrder(Live', Ordered')
  <2>1. Linear(Live, Ordered)'
    BY OrderedLinear, PTL DEF TInv
  <2>2. QED
    BY <2>1 DEF Stored, Ordered
<1>9. Stored' = next
  BY <1>3, <1>6, <1>7, <1>8, OnlyOneInOrder
<1>10. QED
  BY <1>1, <1>6, <1>9 DEF next, TInv

\* A request that is committed is one that was about to.
LEMMA ArriveIs ==
    ASSUME NEW p \in Reqs, Start(p) \/ \E m \in MoveArgs : StartMove(p, m)
    PROVE  pc[p] = "idle" /\ \E step \in Awaits \cup {"unmoved"} : pc' = [pc EXCEPT ![p] = step]
<1>1. \A step, q : Arrive(p, step, q) => pc[p] = "idle" /\ pc' = [pc EXCEPT ![p] = step]
  BY DEF Arrive
<1>2. {"insert", "place", "delete", "revive", "commit", "unmoved"} \subseteq Awaits \cup {"unmoved"}
  BY DEF Awaits
<1>3. ASSUME NEW m, StartMove(p, m) PROVE \E step \in {"commit", "unmoved"} : \E q : Arrive(p, step, q)
  BY <1>3 DEF StartMove
<1>4. AnyMove(p) => \E m : StartMove(p, m)
  BY DEF AnyMove
<1>5. StartCreate(p) => \E q : Arrive(p, "insert", q)
  BY DEF StartCreate
<1>6. StartEdit(p) => \E q : Arrive(p, "place", q)
  BY DEF StartEdit
<1>7. StartDelete(p) => \E q : Arrive(p, "delete", q)
  BY DEF StartDelete
<1>8. StartRevive(p) => \E q : Arrive(p, "revive", q)
  BY DEF StartRevive
<1>9. \E step \in {"insert", "place", "delete", "revive", "commit", "unmoved"} : \E q : Arrive(p, step, q)
  BY <1>3, <1>4, <1>5, <1>6, <1>7, <1>8 DEF Start
<1>10. QED
  BY <1>1, <1>2, <1>9

LEMMA ServeIs ==
    ASSUME NEW p \in Reqs, Serve(p)
    PROVE  pc[p] \in Awaits /\ pc' = [pc EXCEPT ![p] = IF pc[p] = "commit" THEN "moved" ELSE "ok"] /\ (pc[p] = "commit" => Commit(p))
<1>1. CASE Insert(p)
  BY <1>1 DEF Insert, Finish, Awaits
<1>2. CASE Place(p)
  BY <1>2 DEF Place, Finish, Awaits
<1>3. CASE Delete(p)
  BY <1>3 DEF Delete, Finish, Awaits
<1>4. CASE Revive(p)
  BY <1>4 DEF Revive, Finish, Awaits
<1>5. CASE Commit(p)
  <2>1. pc[p] = "commit" /\ pc' = [pc EXCEPT ![p] = "moved"]
    BY <1>5 DEF Commit, Finish
  <2>2. QED
    BY <1>5, <2>1 DEF Awaits
<1>6. QED
  BY <1>1, <1>2, <1>3, <1>4, <1>5 DEF Serve

LEMMA CommitsIs ==
    ASSUME LInv, [ListNext]_vars, NEW p \in Reqs, Commits(p)
    PROVE  Commit(p)
<1>1. pc[p] = "commit" /\ pc'[p] = "moved" /\ pc \in [Reqs -> {"idle"} \cup Awaits \cup Outcomes]
  BY DEF Commits, LInv, TInv, TimelineTypeOK
<1>2. pc' # pc
  BY <1>1
<1>3. ~UNCHANGED tvars
  BY <1>2 DEF tvars
<1>4. \E q \in Reqs : Dispatch(q) \/ Others(q) \/ Server(q) \/ Failure(q)
  BY <1>3 DEF ListNext, vars, Grab, DragTo, Drop, Key, Answer, Refresh, Sync
<1>5. PICK q \in Reqs : Dispatch(q) \/ Others(q) \/ Server(q) \/ Failure(q)
  BY <1>4
<1>6. ASSUME NEW step, pc' = [pc EXCEPT ![q] = step], step # "moved" PROVE FALSE
  BY <1>1, <1>6
<1>7. CASE Dispatch(q)
  <2>1. StartMove(q, Head(queue)) /\ Head(queue) \in MoveArgs
    BY <1>7, HeadTailProperties DEF Dispatch, LInv
  <2>2. PICK step \in Awaits \cup {"unmoved"} : pc' = [pc EXCEPT ![q] = step]
    BY <2>1, ArriveIs
  <2>3. QED
    BY <1>6, <2>2 DEF Awaits
<1>8. CASE Others(q)
  <2>1. PICK step \in Awaits \cup {"unmoved"} : pc' = [pc EXCEPT ![q] = step]
    BY <1>8, ArriveIs DEF Others
  <2>2. QED
    BY <1>6, <2>1 DEF Awaits
<1>9. CASE Server(q)
  <2>1. pc' = [pc EXCEPT ![q] = IF pc[q] = "commit" THEN "moved" ELSE "ok"] /\ (pc[q] = "commit" => Commit(q))
    BY <1>9, ServeIs DEF Server
  <2>2. q = p
    BY <1>1, <2>1
  <2>3. QED
    BY <1>1, <2>1, <2>2
<1>10. CASE Failure(q)
  <2>1. pc' = [pc EXCEPT ![q] = "failed"]
    BY <1>10 DEF Failure, Fail
  <2>2. QED
    BY <1>6, <2>1
<1>11. QED
  BY <1>5, <1>7, <1>8, <1>9, <1>10

\* A move whose rows nobody has touched since it read them leaves the other events in the
\* order they were in, and its event next to the neighbour it was anchored to: for any ties
\* and gaps in the orders, hidden events, and requests around it.
THEOREM MovesKeepTheRest == ListSpec => MoveKeepsTheRest
<1>1. ListInit => LInv
  BY LInit
<1>2. LInv /\ [ListNext]_vars => LInv'
  BY ListTyped
<1>3. LInv /\ LInv' /\ [ListNext]_vars
      => [\A p \in Reqs : Commits(p) /\ Stored = req[p].read => MovesItsEventOnly(p)]_tvars
  <2> SUFFICES ASSUME LInv, LInv', [ListNext]_vars, NEW p \in Reqs, Commits(p), Stored = req[p].read
               PROVE  MovesItsEventOnly(p)
    OBVIOUS
  <2> DEFINE m == req[p].move
             new == Moved(Stored, m)
             i == PlaceOf(new, m.id)
  <2>1. Commit(p) /\ TInv /\ TInv'
    BY CommitsIs DEF LInv
  <2>2. Stored' = new /\ Prepared(p)
    BY <2>1, CommitStores
  <2>3. Straight(Stored) /\ new # Stored
    BY <2>1, <2>2, StoredFacts DEF Prepared, TInv
  <2>4. (i > 1 /\ new[i - 1] = m.after) \/ (i < Len(new) /\ new[i + 1] = m.before)
    BY <2>3, MovedLandsNextTo
  <2>5. Without(new, m.id) = Without(Stored, m.id)
    <3> DEFINE T == ToSet(Stored) \ {m.id}
               t == Without(new, m.id)
               s == Without(Stored, m.id)
    <3>1. /\ Straight(new) /\ ToSet(new) = ToSet(Stored)
          /\ \A x, y \in T : <<x, y>> \in Before(new) <=> <<x, y>> \in Before(Stored)
      BY <2>3, MovedFacts
    <3>2. Straight(s) /\ ToSet(s) = T /\ \A x, y \in T : <<x, y>> \in Before(s) <=> <<x, y>> \in Before(Stored)
      BY <2>3, WithoutFacts
    <3> HIDE DEF new
    <3>3. Straight(t) /\ ToSet(t) = T /\ \A x, y \in T : <<x, y>> \in Before(t) <=> <<x, y>> \in Before(new)
      BY <3>1, WithoutFacts
    <3> HIDE DEF t, s, T
    <3>4. Straight(t) /\ Straight(s) /\ ToSet(t) = ToSet(s) /\ \A x, y \in ToSet(t) : <<x, y>> \in Before(t) => <<x, y>> \in Before(s)
      BY <3>1, <3>2, <3>3
    <3>5. t = s
      BY <3>4, SameOrder
    <3>6. QED
      BY <3>5 DEF t, s
  <2> HIDE DEF new
  <2>6. QED
    BY <2>2, <2>4, <2>5 DEF MovesItsEventOnly
<1>4. QED
  BY <1>1, <1>2, <1>3, PTL DEF ListSpec, MoveKeepsTheRest

(***************************************************************************)
(* The list is ahead of the server by what is underway, and by no more.    *)
(***************************************************************************)
Sent == IF serving # Null /\ pc[serving] = "commit" THEN <<req[serving].move>> ELSE <<>>

Coming == After(Stored, Underway)

\* While nobody else writes and no save fails.
Ahead ==
    /\ \A p \in Reqs : pc[p] \in Awaits => p = serving /\ pc[p] = "commit"
    /\ serving # Null => pc[serving] # "failed" /\ (pc[serving] = "commit" => req[serving].read = Stored)
    /\ serving = Null \/ pc[serving] # "moved" => items = Filtered(Stored)
    /\ ToSet(items) = Live \cap Visible
    /\ drag = Null \/ ~dirty => shown = Filtered(Coming)
    /\ drag # Null => drag \in ToSet(shown) /\ (dirty => Carries(shown, drag, Coming))

AInv == ~disturbed => Ahead

LEMMA UnderwayIs == Underway = Sent \o queue
BY DEF Underway, Sent

LEMMA SentTyped == ASSUME LInv PROVE Sent \in Seq(MoveArgs) /\ Underway \in Seq(MoveArgs)
<1>1. serving # Null /\ pc[serving] = "commit" => req[serving].move \in MoveArgs
  BY DEF LInv, TInv, Prepared
<1>2. \A m \in MoveArgs : <<m>> \in Seq(MoveArgs)
  OBVIOUS
<1>3. <<>> \in Seq(MoveArgs)
  OBVIOUS
<1>4. Sent \in Seq(MoveArgs)
  BY <1>1, <1>2, <1>3 DEF Sent
<1>5. QED
  BY <1>4, UnderwayIs, ConcatProperties DEF LInv

LEMMA ComingFacts ==
    ASSUME LInv
    PROVE  /\ Straight(Stored) /\ Straight(Coming) /\ ToSet(Coming) = Live /\ Null \notin ToSet(Coming)
           /\ Straight(Filtered(Coming)) /\ ToSet(Filtered(Coming)) = Live \cap Visible
<1>1. Straight(Stored) /\ ToSet(Stored) = Live /\ Live \subseteq Ids
  BY StoredFacts, Typed DEF LInv, TInv
<1>2. Len(Underway) \in Nat
  BY SentTyped, LenProperties
<1>3. Straight(Coming) /\ ToSet(Coming) = Live
  BY <1>1, <1>2, AfterFacts DEF Coming
<1>4. QED
  BY <1>1, <1>3, NullIsNoEvent, FilteredFacts

LEMMA ComingKept == ASSUME Stored' = Stored, Underway' = Underway PROVE Coming' = Coming
BY DEF Coming

LEMMA StoredKept == ASSUME ev' = ev PROVE Stored' = Stored /\ Live' = Live
BY DEF Stored, Live, Sooner

\* One move more on the queue is one more that is coming.
LEMMA ComingMoves ==
    ASSUME LInv, NEW m \in MoveArgs, UNCHANGED tvars, serving' = serving, queue' = Append(queue, m)
    PROVE  Coming' = Moved(Coming, m)
<1>1. ev' = ev /\ pc' = pc /\ req' = req
  BY DEF tvars
<1>2. Sent' = Sent /\ Stored' = Stored
  BY <1>1, StoredKept DEF Sent
<1>3. Underway' = Sent \o Append(queue, m)
  BY <1>2 DEF Underway, Sent
<1>4. Sent \o Append(queue, m) = Append(Sent \o queue, m)
  <2>1. queue \in Seq(MoveArgs) /\ Sent \in Seq(MoveArgs) /\ <<m>> \in Seq(MoveArgs) /\ Sent \o queue \in Seq(MoveArgs)
    BY SentTyped, UnderwayIs DEF LInv
  <2>2. Append(queue, m) = queue \o <<m>> /\ Append(Sent \o queue, m) = (Sent \o queue) \o <<m>>
    BY <2>1, AppendIsConcat
  <2>3. QED
    BY <2>1, <2>2, ConcatAssociative
<1>5. Underway' = Append(Underway, m)
  BY <1>3, <1>4, UnderwayIs
<1>6. Straight(Stored) /\ Underway \in Seq(MoveArgs)
  BY ComingFacts, SentTyped
<1>7. After(Stored, Append(Underway, m)) = Moved(Coming, m)
  BY <1>6, AfterAppend DEF Coming
<1>8. Coming' = After(Stored', Underway')
  BY DEF Coming
<1>9. QED
  BY <1>2, <1>5, <1>7, <1>8

\* A card that is put down, by the pointer or a key, is told of so that the list will be stored.
LEMMA PutDown ==
    ASSUME LInv, NEW s, NEW e, Carries(s, e, Coming), ListOf(s),
           UNCHANGED tvars, serving' = serving, queue' = Committed(e, s)
    PROVE  s = Filtered(Coming')
<1>1. Straight(Coming) /\ Null \notin ToSet(Coming)
  BY ComingFacts
<1>2. IF Told(e, s).after = Null /\ Told(e, s).before = Null THEN s = Filtered(Coming)
      ELSE s = Filtered(Moved(Coming, Told(e, s)))
  BY <1>1, ToldIsDone
<1>3. Told(e, s) \in MoveArgs
  BY CommittedTyped DEF LInv, ListOf, Carries
<1>4. CASE Told(e, s).after = Null /\ Told(e, s).before = Null
  <2>1. queue' = queue
    BY <1>4, CommittedIs
  <2>2. ev' = ev /\ pc' = pc /\ req' = req
    BY DEF tvars
  <2>3. Underway' = Underway /\ Stored' = Stored
    BY <2>1, <2>2, StoredKept DEF Underway
  <2>4. QED
    BY <1>2, <1>4, <2>3, ComingKept
<1>5. CASE ~(Told(e, s).after = Null /\ Told(e, s).before = Null)
  <2>1. queue' = Append(queue, Told(e, s))
    BY <1>5, CommittedIs
  <2>2. Coming' = Moved(Coming, Told(e, s))
    BY <1>3, <2>1, ComingMoves
  <2>3. QED
    BY <1>2, <1>5, <2>2
<1>6. QED
  BY <1>4, <1>5

LEMMA AInit == ListInit => AInv
<1> SUFFICES ASSUME ListInit PROVE Ahead
  BY DEF AInv
<1>1. LInv
  BY LInit
<1>2. /\ items = Filtered(Stored) /\ shown = items /\ drag = Null /\ queue = <<>> /\ serving = Null
      /\ pc = [p \in Reqs |-> "idle"]
  BY DEF ListInit, Init
<1>3. Underway = <<>>
  BY <1>2 DEF Underway
<1>4. Coming = Stored
  BY <1>1, <1>3, ComingFacts, AfterNone DEF Coming
<1>5. ToSet(items) = Live \cap Visible
  BY <1>1, <1>2, <1>4, ComingFacts
<1>6. \A p \in Reqs : pc[p] \notin Awaits
  BY <1>2 DEF Awaits
<1>7. QED
  BY <1>2, <1>4, <1>5, <1>6 DEF Ahead

LEMMA HeadTailConcat ==
    ASSUME NEW S, NEW s \in Seq(S), s # <<>>
    PROVE  Head(s) \in S /\ Tail(s) \in Seq(S) /\ s = <<Head(s)>> \o Tail(s)
<1> DEFINE h == <<Head(s)>>
           t == Tail(s)
           all == h \o t
<1>1. /\ Head(s) \in S /\ t \in Seq(S) /\ Len(t) = Len(s) - 1 /\ Len(s) \in Nat
      /\ \A i \in 1 .. Len(t) : t[i] = s[i + 1]
  BY HeadTailProperties, LenProperties
<1>2. h \in Seq(S) /\ Len(h) = 1 /\ h[1] = s[1]
  BY <1>1
<1> HIDE DEF h, t
<1>3. /\ all \in Seq(S) /\ Len(all) = Len(s)
      /\ \A i \in 1 .. Len(h) + Len(t) : all[i] = IF i <= Len(h) THEN h[i] ELSE t[i - Len(h)]
  <2>1. all \in Seq(S) /\ Len(all) = Len(h) + Len(t)
    BY <1>1, <1>2, ConcatProperties
  <2>2. \A i \in 1 .. Len(h) + Len(t) : all[i] = IF i <= Len(h) THEN h[i] ELSE t[i - Len(h)]
    <3>1. h \in Seq(S) /\ t \in Seq(S)
      BY <1>1, <1>2
    <3>2. QED
      BY ONLY <3>1, ConcatProperties, Zenon
  <2> HIDE DEF all
  <2>3. QED
    BY <1>1, <1>2, <2>1, <2>2
<1> HIDE DEF all
<1>4. ASSUME NEW i \in 1 .. Len(s) PROVE all[i] = s[i]
  <2>1. i \in 1 .. Len(h) + Len(t)
    BY <1>1, <1>2
  <2>2. CASE i = 1
    BY <1>2, <1>3, <2>1, <2>2
  <2>3. CASE i # 1
    <3>1. ~(i <= Len(h)) /\ i - Len(h) \in 1 .. Len(t) /\ (i - Len(h)) + 1 = i
      BY <1>1, <1>2, <2>3
    <3>2. QED
      BY <1>1, <1>3, <2>1, <3>1
  <2>4. QED
    BY <2>2, <2>3
<1>5. all = s
  BY <1>3, <1>4, SeqEqual
<1>6. QED
  BY <1>1, <1>5 DEF h, t, all

\* A step of the author or the page changes nothing of the requests.
LEMMA PageStep ==
    ASSUME Ahead, UNCHANGED tvars, serving' = serving,
           items' = items \/ items' = Filtered(Stored), ToSet(Filtered(Stored)) = Live \cap Visible,
           drag' = Null \/ ~dirty' => shown' = Filtered(Coming'),
           drag' # Null => drag' \in ToSet(shown') /\ (dirty' => Carries(shown', drag', Coming'))
    PROVE  Ahead'
<1>1. ev' = ev /\ pc' = pc /\ req' = req
  BY DEF tvars
<1>2. Stored' = Stored /\ Live' = Live
  BY <1>1, StoredKept
<1>3. \A p \in Reqs : pc'[p] \in Awaits => p = serving' /\ pc'[p] = "commit"
  BY <1>1 DEF Ahead
<1>4. serving' # Null => pc'[serving'] # "failed" /\ (pc'[serving'] = "commit" => req'[serving'].read = Stored')
  BY <1>1, <1>2 DEF Ahead
<1>5. serving' = Null \/ pc'[serving'] # "moved" => items' = Filtered(Stored')
  BY <1>1, <1>2 DEF Ahead
<1>6. ToSet(items') = Live' \cap Visible
  BY <1>2 DEF Ahead
<1>7. QED
  BY <1>3, <1>4, <1>5, <1>6 DEF Ahead

\* As long as nothing is committed, the same order is coming.
LEMMA ComingStays ==
    ASSUME UNCHANGED tvars, serving' = serving, queue' = queue
    PROVE  Coming' = Coming
<1>1. ev' = ev /\ pc' = pc /\ req' = req
  BY DEF tvars
<1>2. Stored' = Stored /\ Underway' = Underway
  BY <1>1, StoredKept DEF Underway
<1>3. QED
  BY <1>2, ComingKept

LEMMA StoredShown == ASSUME LInv PROVE ToSet(Filtered(Stored)) = Live \cap Visible
<1>1. Straight(Stored) /\ ToSet(Stored) = Live
  BY StoredFacts DEF LInv, TInv
<1>2. QED
  BY <1>1, FilteredFacts

LEMMA GrabAhead == ASSUME LInv, Ahead, NEW e \in Ids, Grab(e) PROVE Ahead'
<1>1. /\ drag = Null /\ e \in ToSet(items) /\ drag' = e /\ dirty' = FALSE /\ UNCHANGED tvars
      /\ items' = items /\ shown' = shown /\ queue' = queue /\ serving' = serving
  BY DEF Grab, Cards
<1>2. Coming' = Coming
  BY <1>1, ComingStays
<1>3. shown = Filtered(Coming) /\ ToSet(items) = Live \cap Visible
  BY <1>1 DEF Ahead
<1>4. e \in ToSet(shown)
  BY <1>1, <1>3, ComingFacts
<1>5. QED
  BY <1>1, <1>2, <1>3, <1>4, StoredShown, PageStep

LEMMA DragAhead == ASSUME LInv, Ahead, NEW i \in Ids, DragTo(i) PROVE Ahead'
<1> DEFINE next == Replaced(shown, drag, i)
           rest == Without(shown, drag)
<1>1. /\ shown' = next /\ dirty' = TRUE /\ UNCHANGED tvars
      /\ items' = items /\ drag' = drag /\ queue' = queue /\ serving' = serving
      /\ drag \in Cards /\ (i = Len(rest) + 1 \/ i \in DOMAIN rest)
  BY DEF DragTo
<1>2. drag \in Ids /\ drag # Null
  BY <1>1, NullIsNoEvent DEF Cards, LInv, ListOf
<1>3. i \in 1 .. Len(rest) + 1
  BY <1>1, <1>2, PlacesToDrop
<1>4. Coming' = Coming
  BY <1>1, ComingStays
<1>5. Carries(shown, drag, Coming)
  <2>1. CASE dirty
    BY <1>2, <2>1 DEF Ahead
  <2>2. CASE ~dirty
    <3>1. shown = Filtered(Coming) /\ drag \in ToSet(shown)
      BY <1>2, <2>2 DEF Ahead
    <3>2. QED
      BY <3>1, ComingFacts, CarriesFrom
  <2>3. QED
    BY <2>1, <2>2
<1>6. Carries(next, drag, Coming)
  BY <1>3, <1>5, CarriesOn
<1> HIDE DEF next
<1>7. drag \in ToSet(next)
  BY <1>6 DEF Carries
<1>8. QED
  BY <1>1, <1>2, <1>4, <1>6, <1>7, StoredShown, PageStep

LEMMA DropAhead == ASSUME LInv, Ahead, Drop PROVE Ahead'
<1>1. /\ drag # Null /\ drag' = Null /\ UNCHANGED tvars
      /\ queue' = IF dirty /\ drag \in ToSet(shown) THEN Committed(drag, shown) ELSE queue
      /\ items' = items /\ shown' = shown /\ serving' = serving
  BY DEF Drop
<1>2. shown' = Filtered(Coming')
  <2>1. CASE dirty
    <3>1. Carries(shown, drag, Coming) /\ queue' = Committed(drag, shown)
      BY <1>1, <2>1 DEF Ahead
    <3>2. ListOf(shown)
      BY DEF LInv
    <3>3. shown = Filtered(Coming')
      BY <1>1, <3>1, <3>2, PutDown
    <3>4. QED
      BY <1>1, <3>3
  <2>2. CASE ~dirty
    <3>1. shown = Filtered(Coming) /\ queue' = queue
      BY <1>1, <2>2 DEF Ahead
    <3>2. Coming' = Coming
      BY <1>1, <3>1, ComingStays
    <3>3. QED
      BY <1>1, <3>1, <3>2
  <2>3. QED
    BY <2>1, <2>2
<1>3. QED
  BY <1>1, <1>2, StoredShown, PageStep

LEMMA KeyAhead == ASSUME LInv, Ahead, NEW e \in Ids, NEW i \in Ids, Key(e, i), ~disturbed' PROVE Ahead'
<1> DEFINE next == Replaced(shown, e, i)
<1>1. /\ shown' = next /\ queue' = Committed(e, next) /\ disturbed' = (disturbed \/ drag # Null)
      /\ UNCHANGED tvars /\ items' = items /\ drag' = drag /\ serving' = serving
      /\ e \in ToSet(shown) /\ i \in DOMAIN shown
  BY DEF Key
<1>2. drag = Null
  BY <1>1
<1>3. shown = Filtered(Coming)
  BY <1>2 DEF Ahead
<1>4. Carries(shown, e, Coming)
  BY <1>1, <1>3, ComingFacts, CarriesFrom
<1>5. i \in 1 .. Len(Without(shown, e)) + 1
  BY <1>1, PlacesToDrop
<1>6. Carries(next, e, Coming) /\ ListOf(next)
  BY <1>4, <1>5, CarriesOn, PlacesToDrop
<1> HIDE DEF next
<1>7. next = Filtered(Coming')
  BY <1>1, <1>6, PutDown
<1>8. QED
  BY <1>1, <1>2, <1>7, StoredShown, PageStep

\* The first of the queue goes on its way: what is coming stays the same, also if the move
\* turns out to move nothing.
LEMMA DispatchAhead == ASSUME LInv, Ahead, NEW p \in Reqs, Dispatch(p) PROVE Ahead'
<1> DEFINE m == Head(queue)
           step == IF Moved(Stored, m) = Stored THEN "unmoved" ELSE "commit"
           q == [Blank EXCEPT !.id = m.id, !.move = m, !.read = Stored]
<1>1. /\ serving = Null /\ queue # <<>> /\ StartMove(p, m) /\ serving' = p /\ queue' = Tail(queue)
      /\ items' = items /\ shown' = shown /\ drag' = drag /\ dirty' = dirty
  BY DEF Dispatch
<1>2. queue \in Seq(MoveArgs) /\ m \in MoveArgs /\ Tail(queue) \in Seq(MoveArgs) /\ queue = <<m>> \o Tail(queue)
  BY <1>1, HeadTailConcat DEF LInv
<1>3. /\ pc \in [Reqs -> {"idle"} \cup Awaits \cup Outcomes] /\ req \in [Reqs -> Request]
      /\ Straight(Stored) /\ Stored \in Seq(Ids)
  BY StoredFacts DEF LInv, TInv, TimelineTypeOK
<1>4. pc' = [pc EXCEPT ![p] = step] /\ req' = [req EXCEPT ![p] = q] /\ ev' = ev
  BY <1>1 DEF StartMove, Arrive
<1>5. q.move = m /\ q.read = Stored
  BY <1>2, <1>3, BlankTyped
<1> HIDE DEF q, m
<1>6. pc'[p] = step /\ req'[p].move = m /\ req'[p].read = Stored
  BY <1>3, <1>4, <1>5
<1>7. p # Null /\ step \in {"unmoved", "commit"}
  BY ListAssumption
<1>8. Stored' = Stored /\ Live' = Live
  BY <1>4, StoredKept
<1>9. Coming' = Coming
  <2>1. Sent = <<>> /\ Underway = queue
    <3>1. Sent = <<>>
      BY <1>1 DEF Sent
    <3>2. QED
      BY <1>2, <3>1, UnderwayIs, ConcatEmptySeq
  <2>2. Coming' = After(Stored, (IF step = "commit" THEN <<m>> ELSE <<>>) \o Tail(queue))
    BY <1>1, <1>6, <1>7, <1>8 DEF Coming, Underway
  <2>3. CASE step = "commit"
    BY <1>2, <2>1, <2>2, <2>3 DEF Coming
  <2>4. CASE step = "unmoved"
    <3>1. Moved(Stored, m) = Stored
      BY <2>4
    <3>2. Coming' = After(Stored, Tail(queue))
      BY <1>2, <2>2, <2>4, ConcatEmptySeq
    <3>3. After(Stored, <<m>> \o Tail(queue)) = After(Moved(Stored, m), Tail(queue))
      BY <1>2, <1>3, AfterFirst
    <3>4. QED
      BY <1>2, <2>1, <3>1, <3>2, <3>3 DEF Coming
  <2>5. QED
    BY <1>7, <2>3, <2>4
<1> HIDE DEF step
<1>10. \A x \in Reqs : pc[x] \notin Awaits
  BY <1>1, ListAssumption DEF Ahead
<1>11. \A x \in Reqs : pc'[x] \in Awaits => x = serving' /\ pc'[x] = "commit"
  BY <1>1, <1>3, <1>4, <1>6, <1>7, <1>10 DEF Awaits
<1>12. pc'[serving'] # "failed" /\ pc'[serving'] # "moved" /\ req'[serving'].read = Stored'
  BY <1>1, <1>6, <1>7, <1>8
<1>13. items' = Filtered(Stored') /\ ToSet(items') = Live' \cap Visible
  BY <1>1, <1>8 DEF Ahead
<1>14. drag' = Null \/ ~dirty' => shown' = Filtered(Coming')
  BY <1>1, <1>9 DEF Ahead
<1>15. drag' # Null => drag' \in ToSet(shown') /\ (dirty' => Carries(shown', drag', Coming'))
  BY <1>1, <1>9 DEF Ahead
<1>16. QED
  BY <1>11, <1>12, <1>13, <1>14, <1>15 DEF Ahead

\* Between the commit and its answer only the list's last render is behind.
LEMMA ServerAhead == ASSUME LInv, LInv', Ahead, NEW p \in Reqs, Server(p) PROVE Ahead'
<1> DEFINE m == req[p].move
<1>1. /\ Serve(p) /\ items' = items /\ shown' = shown /\ drag' = drag /\ dirty' = dirty
      /\ queue' = queue /\ serving' = serving
  BY DEF Server, lvars
<1>2. pc[p] \in Awaits /\ pc' = [pc EXCEPT ![p] = IF pc[p] = "commit" THEN "moved" ELSE "ok"] /\ (pc[p] = "commit" => Commit(p))
  BY <1>1, ServeIs
<1>3. p = serving /\ pc[p] = "commit" /\ Commit(p) /\ req[p].read = Stored /\ p # Null
  <2>1. p = serving /\ pc[p] = "commit"
    BY <1>2 DEF Ahead
  <2>2. p # Null
    BY ListAssumption
  <2>3. QED
    BY <1>2, <2>1, <2>2 DEF Ahead
<1>4. pc \in [Reqs -> {"idle"} \cup Awaits \cup Outcomes]
  BY DEF LInv, TInv, TimelineTypeOK
<1>5. pc'[p] = "moved" /\ \A x \in Reqs \ {p} : pc'[x] = pc[x]
  BY <1>2, <1>3, <1>4
<1>6. Stored' = Moved(Stored, m) /\ Live' = Live /\ m \in MoveArgs
  <2>1. TInv /\ TInv'
    BY DEF LInv
  <2>2. QED
    BY <1>3, <2>1, CommitStores DEF Prepared
<1>7. Coming' = Coming
  <2>1. queue \in Seq(MoveArgs) /\ Straight(Stored)
    BY StoredFacts DEF LInv, TInv
  <2>2. Underway = <<m>> \o queue
    BY <1>3 DEF Underway
  <2>3. Underway' = <<>> \o queue
    BY <1>1, <1>3, <1>5 DEF Underway
  <2>4. Underway' = queue
    BY <2>1, <2>3, ConcatEmptySeq
  <2> HIDE DEF m
  <2>5. After(Stored, <<m>> \o queue) = After(Moved(Stored, m), queue)
    BY <1>6, <2>1, AfterFirst
  <2>6. Coming' = After(Stored', Underway')
    BY DEF Coming
  <2>7. QED
    BY <1>6, <2>2, <2>4, <2>5, <2>6 DEF Coming
<1>8. \A x \in Reqs : pc'[x] \notin Awaits
  BY <1>3, <1>5 DEF Ahead, Awaits
<1>9. pc'[serving'] = "moved" /\ serving' # Null
  BY <1>1, <1>3, <1>5
<1>10. ToSet(items') = Live' \cap Visible
  BY <1>1, <1>6 DEF Ahead
<1>11. drag' = Null \/ ~dirty' => shown' = Filtered(Coming')
  BY <1>1, <1>7 DEF Ahead
<1>12. drag' # Null => drag' \in ToSet(shown') /\ (dirty' => Carries(shown', drag', Coming'))
  BY <1>1, <1>7 DEF Ahead
<1>13. QED
  BY <1>8, <1>9, <1>10, <1>11, <1>12 DEF Ahead

LEMMA AnswerAhead == ASSUME LInv, Ahead, Answer PROVE Ahead'
<1>1. /\ serving # Null /\ pc[serving] \in Outcomes
      /\ items' = IF pc[serving] = "moved" THEN Filtered(Stored) ELSE items
      /\ shown' = IF pc[serving] = "failed" THEN <<>> ELSE shown
      /\ serving' = Null /\ UNCHANGED tvars /\ drag' = drag /\ dirty' = dirty /\ queue' = queue
  BY DEF Answer
<1>2. pc[serving] # "failed" /\ pc[serving] # "commit" /\ pc[serving] \notin Awaits
  BY <1>1 DEF Ahead, Outcomes, Awaits
<1>3. ev' = ev /\ pc' = pc /\ req' = req
  BY <1>1 DEF tvars
<1>4. Stored' = Stored /\ Live' = Live
  BY <1>3, StoredKept
<1>5. Coming' = Coming
  <2>1. Underway' = Underway
    BY <1>1, <1>2, <1>3 DEF Underway
  <2>2. QED
    BY <1>4, <2>1, ComingKept
<1>6. \A x \in Reqs : pc'[x] \notin Awaits
  BY <1>2, <1>3 DEF Ahead
<1>7. items' = Filtered(Stored') /\ ToSet(items') = Live' \cap Visible
  BY <1>1, <1>4, StoredShown DEF Ahead
<1>8. shown' = shown
  BY <1>1, <1>2
<1>9. drag' = Null \/ ~dirty' => shown' = Filtered(Coming')
  BY <1>1, <1>5, <1>8 DEF Ahead
<1>10. drag' # Null => drag' \in ToSet(shown') /\ (dirty' => Carries(shown', drag', Coming'))
  BY <1>1, <1>5, <1>8 DEF Ahead
<1>11. QED
  BY <1>1, <1>6, <1>7, <1>9, <1>10 DEF Ahead

LEMMA SyncAhead == ASSUME LInv, Ahead, Sync PROVE Ahead'
<1>1. /\ queue = <<>> /\ serving = Null /\ drag = Null /\ shown' = items /\ UNCHANGED tvars
      /\ items' = items /\ drag' = drag /\ dirty' = dirty /\ queue' = queue /\ serving' = serving
  BY DEF Sync, Pending
<1>2. Underway = <<>>
  BY <1>1 DEF Underway
<1>3. Coming = Stored
  BY <1>2, ComingFacts, AfterNone DEF Coming
<1>4. Coming' = Coming
  BY <1>1, ComingStays
<1>5. items = Filtered(Stored)
  BY <1>1 DEF Ahead
<1>6. QED
  BY <1>1, <1>3, <1>4, <1>5, StoredShown, PageStep

LEMMA AStep == LInv /\ LInv' /\ AInv /\ [ListNext]_vars => AInv'
<1> SUFFICES ASSUME LInv, LInv', AInv, [ListNext]_vars, ~disturbed' PROVE Ahead'
  BY DEF AInv
<1>0. disturbed' = disturbed => Ahead
  BY DEF AInv
<1>1. ASSUME NEW e \in Ids, Grab(e) PROVE Ahead'
  BY <1>0, <1>1, GrabAhead DEF Grab
<1>2. ASSUME NEW i \in Ids, DragTo(i) PROVE Ahead'
  BY <1>0, <1>2, DragAhead DEF DragTo
<1>3. CASE Drop
  BY <1>0, <1>3, DropAhead DEF Drop
<1>4. ASSUME NEW e \in Ids, NEW i \in Ids, Key(e, i) PROVE Ahead'
  <2>1. disturbed' = (disturbed \/ drag # Null)
    BY <1>4 DEF Key
  <2>2. ~disturbed
    BY <2>1
  <2>3. Ahead
    BY <2>2 DEF AInv
  <2>4. QED
    BY <1>4, <2>3, KeyAhead
<1>5. ASSUME NEW p \in Reqs, Dispatch(p) PROVE Ahead'
  BY <1>0, <1>5, DispatchAhead DEF Dispatch
<1>6. ASSUME NEW p \in Reqs, Others(p) PROVE FALSE
  BY <1>6 DEF Others
<1>7. ASSUME NEW p \in Reqs, Server(p) PROVE Ahead'
  BY <1>0, <1>7, ServerAhead DEF Server, lvars
<1>8. ASSUME NEW p \in Reqs, Failure(p) PROVE FALSE
  BY <1>8 DEF Failure
<1>9. CASE Answer
  BY <1>0, <1>9, AnswerAhead DEF Answer
<1>10. CASE Refresh
  <2>1. /\ items' = Filtered(Stored) /\ UNCHANGED tvars /\ disturbed' = disturbed
        /\ shown' = shown /\ drag' = drag /\ dirty' = dirty /\ queue' = queue /\ serving' = serving
    BY <1>10 DEF Refresh
  <2>2. Ahead
    BY <1>0, <2>1
  <2>3. Coming' = Coming
    BY <2>1, ComingStays
  <2>4. drag' = Null \/ ~dirty' => shown' = Filtered(Coming')
    BY <2>1, <2>2, <2>3 DEF Ahead
  <2>5. drag' # Null => drag' \in ToSet(shown') /\ (dirty' => Carries(shown', drag', Coming'))
    BY <2>1, <2>2, <2>3 DEF Ahead
  <2>6. QED
    BY <2>1, <2>2, <2>4, <2>5, StoredShown, PageStep
<1>11. CASE Sync
  BY <1>0, <1>11, SyncAhead DEF Sync
<1>12. CASE UNCHANGED vars
  <2>1. /\ items' = items /\ UNCHANGED tvars /\ disturbed' = disturbed
        /\ shown' = shown /\ drag' = drag /\ dirty' = dirty /\ queue' = queue /\ serving' = serving
    BY <1>12 DEF vars, lvars
  <2>2. Ahead
    BY <1>0, <2>1
  <2>3. Coming' = Coming
    BY <2>1, ComingStays
  <2>4. drag' = Null \/ ~dirty' => shown' = Filtered(Coming')
    BY <2>1, <2>2, <2>3 DEF Ahead
  <2>5. drag' # Null => drag' \in ToSet(shown') /\ (dirty' => Carries(shown', drag', Coming'))
    BY <2>1, <2>2, <2>3 DEF Ahead
  <2>6. QED
    BY <2>1, <2>2, <2>4, <2>5, StoredShown, PageStep
<1>13. QED
  BY <1>1, <1>2, <1>3, <1>4, <1>5, <1>6, <1>7, <1>8, <1>9, <1>10, <1>11, <1>12 DEF ListNext

\* While nobody else writes and no save fails, the order the list shows ahead of the server is
\* the one the server will store: for any filter, however many moves are on their way, and
\* whether a drag has begun since or not.
THEOREM StaysAhead == ListSpec => []WillBeStored
<1>1. ListInit => LInv /\ AInv
  BY LInit, AInit
<1>2. LInv /\ [ListNext]_vars => LInv'
  BY ListTyped
<1>3. LInv /\ LInv' /\ AInv /\ [ListNext]_vars => AInv'
  BY AStep
<1>4. AInv => WillBeStored
  BY DEF AInv, Ahead, WillBeStored, Coming
<1>5. QED
  BY <1>1, <1>2, <1>3, <1>4, PTL DEF ListSpec

=============================================================================
