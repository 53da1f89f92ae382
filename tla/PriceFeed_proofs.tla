-------------------------- MODULE PriceFeed_proofs --------------------------
(***************************************************************************)
(* Proofs about the fetch loop, for any number of pairs, any deadline and  *)
(* any behaviour of the server; and about parse_price, for any number of   *)
(* places.                                                                 *)
(***************************************************************************)
EXTENDS PriceFeed, TLAPS, WellFoundedInduction

Call == [pair: MonitoredPair, stage: {"sent", "answered", "body"}, deadline: Nat]

FeedTypeOK ==
  /\ server \in [MonitoredPair -> Response \cup {Unreachable}]
  /\ remaining \subseteq MonitoredPair
  /\ call \in Call \cup {Idle}
  /\ clock \in Nat

(* What a request under way has already shown about its server.            *)
CallSoFar ==
  call # Idle =>
    LET r == server[call.pair] IN
    /\ call.pair \notin remaining
    /\ r # Unreachable
    /\ call.stage = "sent" => call.deadline = clock + Deadline
    /\ call.stage # "sent" => r.delay <= Deadline
    /\ call.stage = "body" => r.code = 200

(* The pairs whose request is over, and what they left behind.             *)
Over == {p \in MonitoredPair \ remaining : call # Idle => p # call.pair}

FetchedSoFar == DOMAIN fetched = {p \in Over : GoodAnswer(server[p])}

FeedInv == FeedTypeOK /\ CallSoFar /\ FetchedSoFar

(* A request that is over leaves nothing behind unless its answer is good. *)
LEMMA LeaveOutStep ==
  ASSUME FeedInv, call # Idle, ~GoodAnswer(server[call.pair]),
         LeaveOut, UNCHANGED <<server, remaining>>, clock' \in Nat
  PROVE  FeedInv'
  <1> USE DEF FeedInv, LeaveOut
  <1>1. FeedTypeOK' /\ CallSoFar'
        BY DEF FeedTypeOK, CallSoFar
  <1>2. Over' = Over \cup {call.pair}
        BY DEF Over, CallSoFar, FeedTypeOK, Call
  <1>3. FetchedSoFar'
        BY <1>2 DEF FetchedSoFar, GoodAnswer
  <1> QED
      BY <1>1, <1>3

(* A request that goes on changes nothing else.                            *)
LEMMA AdvanceStep ==
  ASSUME FeedInv, call # Idle, NEW stage \in {"answered", "body"},
         call' = [call EXCEPT !.stage = stage],
         UNCHANGED <<server, remaining, fetched>>, clock' \in Nat,
         server[call.pair].delay <= Deadline,
         stage = "body" => server[call.pair].code = 200
  PROVE  FeedInv'
  <1> USE DEF FeedInv
  <1>1. call \in Call /\ call' \in Call /\ call'.pair = call.pair /\ call'.stage = stage
        BY DEF FeedTypeOK, Call
  <1>2. call' # Idle
        BY <1>1, FeedAssumption DEF Call
  <1>3. FeedTypeOK'
        BY <1>1 DEF FeedTypeOK
  <1>4. CallSoFar'
        BY <1>1, <1>2 DEF CallSoFar
  <1>5. Over' = Over
        BY <1>1, <1>2 DEF Over
  <1>6. FetchedSoFar'
        BY <1>5 DEF FetchedSoFar, GoodAnswer
  <1> QED
      BY <1>3, <1>4, <1>6

(* Every step of the provider and its servers keeps what is known of the   *)
(* round so far.                                                           *)
LEMMA FeedStep == FeedInv /\ [Next]_vars => FeedInv'
  <1> SUFFICES ASSUME FeedInv, [Next]_vars PROVE FeedInv'
      OBVIOUS
  <1> USE DEF FeedInv
  <1>0. /\ Deadline \in Nat
        /\ call # Idle => /\ call \in Call
                          /\ server[call.pair] \in Response
                          /\ server[call.pair].delay \in Nat /\ server[call.pair].rest \in Nat
    <2>1. call # Idle => call \in Call /\ server[call.pair] \in Response \cup {Unreachable}
          BY DEF FeedTypeOK, Call
    <2>2. call # Idle => server[call.pair] \in Response
          BY <2>1 DEF CallSoFar
    <2>3. \A r \in Response : r.delay \in Time /\ r.rest \in Time
          BY DEF Response
    <2>4. Time \subseteq Nat /\ Deadline \in Nat
          BY FeedAssumption
    <2> QED
        BY <2>1, <2>2, <2>3, <2>4
  <1>1. CASE send
    <2> PICK p \in remaining :
          /\ remaining' = remaining \ {p}
          /\ \/ server[p] = Unreachable /\ LeaveOut
             \/ /\ server[p] # Unreachable
                /\ call' = [pair |-> p, stage |-> "sent", deadline |-> new_deadline]
                /\ UNCHANGED fetched
        BY <1>1 DEF send
    <2>1. call = Idle /\ UNCHANGED <<server, clock, fetched>> /\ p \in MonitoredPair
          BY <1>1 DEF send, LeaveOut, FeedTypeOK
    <2>2. CASE server[p] = Unreachable /\ LeaveOut
      <3>1. FeedTypeOK' /\ CallSoFar'
            BY <2>1, <2>2 DEF FeedTypeOK, CallSoFar, LeaveOut
      <3>2. Over' = Over \cup {p}
            BY <2>1, <2>2 DEF Over, LeaveOut
      <3>3. FetchedSoFar'
            BY <2>1, <2>2, <3>2 DEF FetchedSoFar, GoodAnswer
      <3> QED
          BY <3>1, <3>3
    <2>3. CASE /\ server[p] # Unreachable
               /\ call' = [pair |-> p, stage |-> "sent", deadline |-> new_deadline]
      <3>1. call' \in Call /\ call' # Idle /\ call'.pair = p
            BY <1>0, <2>1, <2>3, FeedAssumption DEF Call, new_deadline, FeedTypeOK
      <3>2. FeedTypeOK'
            BY <2>1, <3>1 DEF FeedTypeOK
      <3>3. CallSoFar'
            BY <2>1, <2>3 DEF CallSoFar, new_deadline
      <3>4. Over' = Over
            BY <2>1, <3>1 DEF Over, FeedTypeOK
      <3>5. FetchedSoFar'
            BY <2>1, <3>4 DEF FetchedSoFar
      <3> QED
          BY <3>2, <3>3, <3>5
    <2> QED
        BY <2>2, <2>3
  <1>2. CASE try_wait
    <2>1. /\ call # Idle /\ call.stage = "sent" /\ call.deadline = clock + Deadline
          /\ clock \in Nat /\ UNCHANGED <<server, remaining>>
          BY <1>2 DEF try_wait, At, CallSoFar, FeedTypeOK
    <2>2. CASE clock + server[call.pair].delay <= call.deadline
          BY <1>0, <1>2, <2>1, <2>2, AdvanceStep DEF try_wait
    <2>3. CASE clock + server[call.pair].delay > call.deadline
      <3>1. ~GoodAnswer(server[call.pair]) /\ call.deadline \in Nat
            BY <1>0, <2>1, <2>3 DEF GoodAnswer
      <3> QED
          BY <1>0, <1>2, <2>1, <2>3, <3>1, LeaveOutStep DEF try_wait
    <2> QED
        BY <1>0, <2>1, <2>2, <2>3
  <1>3. CASE check_code
    <2>1. /\ call # Idle /\ call.stage = "answered" /\ server[call.pair].delay <= Deadline
          /\ clock' \in Nat /\ UNCHANGED <<server, remaining>>
          BY <1>3 DEF check_code, At, CallSoFar, FeedTypeOK
    <2>2. CASE server[call.pair].code = 200
          BY <1>3, <2>1, <2>2, AdvanceStep DEF check_code
    <2>3. CASE server[call.pair].code # 200
          BY <1>3, <2>1, <2>3, LeaveOutStep DEF check_code, GoodAnswer
    <2> QED
        BY <2>2, <2>3
  <1>4. CASE read_body
    <2>1. /\ call # Idle /\ call.stage = "body" /\ clock' \in Nat
          /\ UNCHANGED <<server, remaining>>
          BY <1>0, <1>4 DEF read_body, At, FeedTypeOK
    <2>2. CASE server[call.pair].body = NotAPrice
          BY <1>4, <2>1, <2>2, LeaveOutStep DEF read_body, GoodAnswer
    <2>3. CASE server[call.pair].body # NotAPrice
      <3>1. call' = Idle /\ DOMAIN fetched' = DOMAIN fetched \cup {call.pair}
            BY <1>4, <2>3 DEF read_body
      <3>2. GoodAnswer(server[call.pair])
            BY <2>1, <2>3 DEF GoodAnswer, CallSoFar
      <3>3. FeedTypeOK' /\ CallSoFar'
            BY <2>1, <3>1 DEF FeedTypeOK, CallSoFar
      <3>4. Over' = Over \cup {call.pair}
            BY <1>0, <2>1, <3>1 DEF Over, CallSoFar, Call
      <3>5. FetchedSoFar'
            BY <2>1, <3>1, <3>2, <3>4 DEF FetchedSoFar
      <3> QED
          BY <3>3, <3>5
    <2> QED
        BY <2>2, <2>3
  <1>5. CASE UNCHANGED vars
        BY <1>5 DEF vars, FeedTypeOK, CallSoFar, FetchedSoFar, Over
  <1> QED
      BY <1>1, <1>2, <1>3, <1>4, <1>5 DEF Next

(* After a round there is a price for exactly the pairs whose own server   *)
(* gave a good answer in time (fetch_prices_and_update_best_paths,         *)
(* get_price).                                                             *)
THEOREM FeedFailsPairByPair == Spec => []PairsFailAlone
  <1>1. Init => FeedInv
        BY DEF Init, FeedInv, FeedTypeOK, CallSoFar, FetchedSoFar, Over
  <1>2. FeedInv => PairsFailAlone
        BY DEF FeedInv, FetchedSoFar, Over, PairsFailAlone
  <1> QED
      BY <1>1, <1>2, FeedStep, PTL DEF Spec

-----------------------------------------------------------------------------
(* Powers of ten                                                           *)

(* A set of naturals that is not empty has a least element.                *)
LEMMA LeastNumber ==
  ASSUME NEW T \in SUBSET Nat, T # {}
  PROVE  \E x \in T : \A y \in T : x <= y
  <1> DEFINE R == {ss \in Nat \X Nat : ss[1] < ss[2]}
  <1>1. IsWellFoundedOn(R, Nat)
        BY NatLessThanWellFounded DEF OpToRel
  <1>2. \E x \in T : \A y \in T : <<y, x>> \notin R
    <2> HIDE DEF R
    <2> QED
        BY <1>1, WFMin
  <1>3. \A x, y \in Nat : <<y, x>> \notin R => x <= y
        OBVIOUS
  <1> HIDE DEF R
  <1> QED
      BY <1>2, <1>3

Powers(g, n) == g = [h \in 0 .. n |-> IF h = 0 THEN 1 ELSE 10 * g[h - 1]]

(* What a table of powers holds, entry by entry.                           *)
LEMMA PowersByEntry ==
  ASSUME NEW g, NEW n \in Nat, Powers(g, n)
  PROVE  g[0] = 1 /\ \A h \in 1 .. n : g[h] = 10 * g[h - 1]
  BY DEF Powers

(* There is such a table of any size.                                      *)
LEMMA PowersExist ==
  ASSUME NEW n \in Nat
  PROVE  \E g : Powers(g, n)
  <1> DEFINE Bad == {m \in Nat : ~\E g : Powers(g, m)}
  <1>1. \E g : Powers(g, 0)
    <2> DEFINE g == [h \in 0 .. 0 |-> 1]
    <2>1. Powers(g, 0)
          BY DEF Powers
    <2> QED
        BY <2>1
  <1>2. ASSUME NEW m \in Nat \ {0}, \E g : Powers(g, m - 1)
        PROVE  \E g : Powers(g, m)
    <2>1. PICK g : Powers(g, m - 1)
          BY <1>2
    <2> DEFINE f == [h \in 0 .. m |-> IF h = 0 THEN 1 ELSE 10 * g[h - 1]]
    <2>2. \A h \in 0 .. m - 1 : f[h] = g[h]
          BY <2>1 DEF Powers
    <2>3. \A h \in 0 .. m : h # 0 => h - 1 \in 0 .. m - 1
          OBVIOUS
    <2>4. f = [h \in 0 .. m |-> IF h = 0 THEN 1 ELSE 10 * f[h - 1]]
      <3>1. \A h \in 0 .. m : (IF h = 0 THEN 1 ELSE 10 * g[h - 1]) = (IF h = 0 THEN 1 ELSE 10 * f[h - 1])
        <4> HIDE DEF f
        <4> QED
            BY <2>2, <2>3
      <3> DEFINE e == [h \in 0 .. m |-> IF h = 0 THEN 1 ELSE 10 * f[h - 1]]
      <3>2. \A h \in 0 .. m : f[h] = e[h]
            BY <3>1
      <3> QED
          BY <3>2
    <2> HIDE DEF f
    <2> QED
        BY <2>4 DEF Powers
  <1>3. ASSUME Bad # {}
        PROVE  FALSE
    <2>0. Bad \in SUBSET Nat
          OBVIOUS
    <2>1. PICK m \in Bad : \A y \in Bad : m <= y
      <3> HIDE DEF Bad
      <3> QED
          BY <1>3, <2>0, LeastNumber
    <2>2. m \in Nat \ {0} /\ m - 1 \in Nat /\ ~(m <= m - 1)
          BY <1>1, <2>1
    <2>3. \E g : Powers(g, m - 1)
          BY <2>1, <2>2
    <2> QED
        BY <1>2, <2>1, <2>2, <2>3
  <1> QED
      BY <1>3

(* Two tables agree as far as both go, and hold positive numbers.          *)
LEMMA PowersAgree ==
  ASSUME NEW n \in Nat, NEW m \in Nat, NEW f, NEW g, Powers(f, n), Powers(g, m),
         NEW k \in 0 .. n, k <= m
  PROVE  f[k] = g[k] /\ f[k] \in Nat \ {0}
  <1> DEFINE Bad == {h \in Nat : h <= k /\ ~(f[h] = g[h] /\ f[h] \in Nat \ {0})}
  <1>1. ASSUME Bad # {}
        PROVE  FALSE
    <2>0. Bad \in SUBSET Nat
          OBVIOUS
    <2>1. PICK h \in Bad : \A y \in Bad : h <= y
      <3> HIDE DEF Bad
      <3> QED
          BY <1>1, <2>0, LeastNumber
    <2>2. h \in Nat \ {0} /\ h <= k
          BY <2>1, PowersByEntry
    <2>3. h \in 1 .. n /\ h \in 1 .. m /\ h - 1 \in Nat /\ h - 1 <= k /\ ~(h <= h - 1)
          BY <2>2
    <2>4. f[h - 1] = g[h - 1] /\ f[h - 1] \in Nat \ {0}
          BY <2>1, <2>3
    <2>5. f[h] = 10 * f[h - 1] /\ g[h] = 10 * g[h - 1]
          BY <2>3, PowersByEntry
    <2> QED
        BY <2>1, <2>4, <2>5
  <1>2. k \in Nat /\ k <= k
        OBVIOUS
  <1> QED
      BY <1>1, <1>2

(* TenTo raises to powers (u128::pow).                                     *)
LEMMA TenToIsPower ==
  /\ TenTo(0) = 1
  /\ \A n \in Nat : TenTo(n) \in Nat \ {0} /\ TenTo(n + 1) = 10 * TenTo(n)
  <1> DEFINE table(n) == CHOOSE g : g = [h \in 0 .. n |-> IF h = 0 THEN 1 ELSE 10 * g[h - 1]]
  <1>1. ASSUME NEW n \in Nat
        PROVE  Powers(table(n), n) /\ TenTo(n) = table(n)[n]
    <2>1. \E g : g = [h \in 0 .. n |-> IF h = 0 THEN 1 ELSE 10 * g[h - 1]]
          BY PowersExist, Zenon DEF Powers
    <2>2. Powers(table(n), n)
          BY <2>1, Zenon DEF Powers
    <2>3. TenTo(n) = table(n)[n]
          BY Zenon DEF TenTo
    <2> QED
        BY <2>2, <2>3
  <1> HIDE DEF table
  <1>2. TenTo(0) = 1
        BY <1>1, PowersByEntry
  <1>3. ASSUME NEW n \in Nat
        PROVE  TenTo(n) \in Nat \ {0} /\ TenTo(n + 1) = 10 * TenTo(n)
    <2>1. /\ n + 1 \in Nat /\ n \in 0 .. n /\ n <= n + 1
          /\ n + 1 \in 1 .. n + 1 /\ (n + 1) - 1 = n
          OBVIOUS
    <2>2. Powers(table(n), n) /\ Powers(table(n + 1), n + 1)
          BY <1>1, <2>1
    <2>3. table(n)[n] = table(n + 1)[n] /\ table(n)[n] \in Nat \ {0}
          BY <2>1, <2>2, PowersAgree
    <2>4. table(n + 1)[n + 1] = 10 * table(n + 1)[n]
          BY <2>1, <2>2, PowersByEntry
    <2> QED
        BY <1>1, <2>1, <2>3, <2>4
  <1> QED
      BY <1>2, <1>3

-----------------------------------------------------------------------------
(* What is read                                                            *)

(* A quotient is told by where the multiples of the divisor lie.           *)
LEMMA QuotientIs ==
  ASSUME NEW x \in Nat, NEW d \in Nat \ {0}, NEW q \in Nat, q * d <= x, x < (q + 1) * d
  PROVE  x \div d = q
  <1> DEFINE t == x \div d
  <1>1. t \in Nat /\ t * d <= x /\ x < (t + 1) * d
        OBVIOUS
  <1> HIDE DEF t
  <1>2. \A a, b \in Nat : a <= b => a * d <= b * d
        OBVIOUS
  <1>3. ~(t + 1 <= q) /\ ~(q + 1 <= t)
        BY <1>1, <1>2
  <1>4. t = q
        BY <1>1, <1>3
  <1> QED
      BY <1>4 DEF t

(* Cutting after scaling up by a hundred, in both the number and the unit, *)
(* is no different, and whole units may be added before or after.          *)
LEMMA ScaledQuotient ==
  ASSUME NEW i \in Nat, NEW f \in Nat, NEW A \in Nat \ {0}, NEW B \in Nat \ {0}
  PROVE  ((i * (100 * B) + f) * (100 * A)) \div (100 * B) = i * (100 * A) + (f * A) \div B
  <1> DEFINE q == (f * A) \div B
             x == (i * (100 * B) + f) * (100 * A)
             d == 100 * B
  <1>1. f * A \in Nat /\ i * A \in Nat
        OBVIOUS
  <1>2. q \in Nat /\ q * B <= f * A /\ f * A < (q + 1) * B
    <2> DEFINE y == f * A
    <2>1. y \in Nat
          BY <1>1
    <2> HIDE DEF y
    <2>2. y \div B \in Nat /\ (y \div B) * B <= y /\ y < (y \div B + 1) * B
          BY <2>1
    <2> QED
        BY <2>2 DEF y
  <1> HIDE DEF q
  <1>3. x = 10000 * ((i * A) * B) + 100 * (f * A)
        OBVIOUS
  <1>4. (i * (100 * A) + q) * d = 10000 * ((i * A) * B) + 100 * (q * B)
        BY <1>2
  <1>5. (i * (100 * A) + q + 1) * d = 10000 * ((i * A) * B) + 100 * ((q + 1) * B)
        BY <1>2
  <1>6. (i * A) * B \in Nat /\ q * B \in Nat /\ (q + 1) * B \in Nat
        BY <1>1, <1>2
  <1>7. x \in Nat /\ d \in Nat \ {0} /\ i * (100 * A) + q \in Nat
        BY <1>1, <1>2, <1>3, <1>6
  <1>8. (i * (100 * A) + q) * d <= x /\ x < (i * (100 * A) + q + 1) * d
        BY <1>1, <1>2, <1>3, <1>4, <1>5, <1>6
  <1> HIDE DEF x, d
  <1>9. x \div d = i * (100 * A) + q
        BY <1>7, <1>8, QuotientIs
  <1> QED
      BY <1>9 DEF x, d, q

(* A number without an exponent, and with a fraction of no digits or of    *)
(* two and more, is read as what it is (parse_price).                      *)
LEMMA PlainIsExact ==
  ASSUME NEW n \in Number, Plain(n)
  PROVE  parse_price(n) = Exactly(n)
  <1> DEFINE i == n.integer
             f == n.fraction
             L == n.fraction_length
             A == TenTo(Scale - 2)
  <1>1. /\ i \in Nat /\ f \in Nat /\ L \in Nat /\ L # 1 /\ n.exponent = 0 /\ f < TenTo(L)
        /\ Scale - 2 \in Nat /\ Scale = ((Scale - 2) + 1) + 1 /\ L - n.exponent = L
        BY FeedAssumption DEF Plain
  <1>2. \A k \in Nat : TenTo(k) \in Nat \ {0} /\ TenTo((k + 1) + 1) = 100 * TenTo(k)
    <2>1. ASSUME NEW k \in Nat
          PROVE  TenTo(k) \in Nat \ {0} /\ TenTo((k + 1) + 1) = 100 * TenTo(k)
      <3>1. k + 1 \in Nat
            OBVIOUS
      <3>2. /\ TenTo((k + 1) + 1) = 10 * TenTo(k + 1)
            /\ TenTo(k + 1) = 10 * TenTo(k) /\ TenTo(k) \in Nat \ {0}
            BY <3>1, TenToIsPower
      <3> QED
          BY <3>2
    <2> QED
        BY <2>1
  <1>3. A \in Nat \ {0} /\ TenTo(Scale) = 100 * A
        BY <1>1, <1>2
  <1>4. Exactly(n) = ((i * TenTo(L) + f) * TenTo(Scale)) \div TenTo(L)
        BY <1>1 DEF Exactly
  <1>5. CASE L = 0
    <2>1. TenTo(0) = 1 /\ f = 0
          BY <1>1, <1>5, TenToIsPower
    <2>2. parse_price(n) = i * TenTo(Scale) + (f * A) \div TenTo(0)
          BY <1>5 DEF parse_price
    <2>3. f * A = 0 /\ 0 \div 1 = 0
          BY <1>3, <2>1
    <2>4. \A x \in Nat : x \div 1 = x
          BY QuotientIs
    <2>5. i * (100 * A) \in Nat
          BY <1>1, <1>3
    <2> HIDE DEF i, f, L, A
    <2>6. Exactly(n) = i * (100 * A)
      <3>1. (i * 1 + 0) * (100 * A) = i * (100 * A)
            BY <1>1
      <3> QED
          BY <1>3, <1>4, <1>5, <2>1, <2>4, <2>5, <3>1
    <2>7. parse_price(n) = i * (100 * A)
          BY <1>3, <2>1, <2>2, <2>3, <2>5
    <2> QED
        BY <2>6, <2>7
  <1>6. CASE L > 2 \/ L = 2
    <2> DEFINE B == TenTo(L - 2)
    <2>1. L - 2 \in Nat /\ L = ((L - 2) + 1) + 1
          BY <1>1, <1>6
    <2>2. B \in Nat \ {0} /\ TenTo(L) = 100 * B
          BY <1>2, <2>1
    <2>3. parse_price(n) = i * TenTo(Scale) + (f * A) \div B
          BY <1>1, <1>6 DEF parse_price
    <2> HIDE DEF i, f, A, B
    <2>4. ((i * (100 * B) + f) * (100 * A)) \div (100 * B) = i * (100 * A) + (f * A) \div B
          BY <1>1, <1>3, <2>2, ScaledQuotient
    <2> QED
        BY <1>3, <1>4, <2>2, <2>3, <2>4
  <1> QED
      BY <1>1, <1>5, <1>6

(* What was fetched is what parse_price made of the body.                  *)
AsParsed == \A p \in DOMAIN fetched : fetched[p] = parse_price(server[p].body)

(* The price of a pair is the number its own server sent, to the last of   *)
(* Scale places, unless it has an exponent or a fraction of one digit      *)
(* (parse_price, get_price).                                               *)
THEOREM PlainPricesRead == Spec => []PlainPricesAreExact
  <1>1. Init => FeedInv /\ AsParsed
        BY DEF Init, FeedInv, FeedTypeOK, CallSoFar, FetchedSoFar, Over, AsParsed
  <1>2. FeedInv /\ AsParsed /\ [Next]_vars => FeedInv' /\ AsParsed'
    <2> SUFFICES ASSUME FeedInv, AsParsed, [Next]_vars PROVE AsParsed'
        BY FeedStep
    <2>1. CASE read_body
      <3>1. server' = server
            BY <2>1 DEF read_body
      <3>2. CASE LeaveOut
            BY <3>1, <3>2 DEF LeaveOut, AsParsed
      <3>3. CASE fetched' = [p \in DOMAIN fetched \cup {call.pair} |->
                               IF p = call.pair THEN parse_price(server[call.pair].body) ELSE fetched[p]]
            BY <3>1, <3>3 DEF AsParsed
      <3> QED
          BY <2>1, <3>2, <3>3 DEF read_body
    <2>2. CASE UNCHANGED <<server, fetched>>
          BY <2>2 DEF AsParsed
    <2> QED
        BY <2>1, <2>2 DEF Next, send, try_wait, check_code, LeaveOut, vars
  <1>3. FeedInv /\ AsParsed => PlainPricesAreExact
    <2> SUFFICES ASSUME FeedInv, AsParsed, NEW p \in DOMAIN fetched, Plain(server[p].body)
                 PROVE  fetched[p] = Exactly(server[p].body)
        BY DEF PlainPricesAreExact
    <2>1. p \in MonitoredPair /\ GoodAnswer(server[p])
          BY DEF FeedInv, FetchedSoFar, Over
    <2>2. server[p] \in Response /\ server[p].body # NotAPrice
          BY <2>1 DEF FeedInv, FeedTypeOK, GoodAnswer
    <2>3. server[p].body \in Number
          BY <2>2 DEF Response
    <2> QED
        BY <2>3, PlainIsExact DEF AsParsed
  <1> QED
      BY <1>1, <1>2, <1>3, PTL DEF Spec
=============================================================================
