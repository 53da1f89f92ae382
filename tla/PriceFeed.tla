------------------------------ MODULE PriceFeed ------------------------------
(***************************************************************************)
(* How a worker gets its prices: the loop of                               *)
(* fetch_prices_and_update_best_paths over the monitored pairs             *)
(* (pallets/aggregator/src/lib.rs), get_price of the CryptoCompare         *)
(* provider (trade_provider/crypto_compare.rs) and parse_price (utils.rs). *)
(* AggregatorSystem takes any outcome of this loop: a price for some of    *)
(* the pairs.                                                              *)
(*                                                                         *)
(* The server and the HTTP client are external.  What the server does to   *)
(* each request is fixed at the start.  JSON text is not modelled: a body  *)
(* holds a number for the target currency, as lite_json parses it, or it   *)
(* is no price.  Operators marked `Fault` are mistakes the code does not   *)
(* make, as in Aggregator.                                                 *)
(***************************************************************************)
EXTENDS Integers

CONSTANTS
  MonitoredPair,   \* the pairs asked for in one round
  Scale,           \* decimal places of a price: 12 in the code
  Deadline,        \* the time a request may take: 2 s in the code
  Time,            \* the times a server may take
  Number,          \* the numbers a body may hold
  NotAPrice,       \* any other body: cut short, no JSON, another key, no number
  Unreachable,     \* the request cannot be sent
  Idle             \* no request is under way

(* u128::pow, of ten.                                                      *)
TenTo(n) ==
  LET power[h \in 0 .. n] == IF h = 0 THEN 1 ELSE 10 * power[h - 1]
  IN  power[n]

ASSUME FeedAssumption ==
  /\ Scale \in Nat /\ Scale >= 2
  /\ Deadline \in Nat
  /\ Time \subseteq Nat
  /\ Number \subseteq [integer: Nat, fraction: Nat, fraction_length: Nat, exponent: Int]
  /\ \A n \in Number : n.fraction < TenTo(n.fraction_length)
  /\ Idle \notin [pair: MonitoredPair, stage: {"sent", "answered", "body"}, deadline: Nat]

(* The headers come after `delay`, the rest of the body after `rest`.      *)
Response == [delay: Time, code: {200, 503}, rest: Time, body: Number \cup {NotAPrice}]

VARIABLES
  server,      \* what happens to the request for each pair
  remaining,   \* the pairs not yet asked for
  call,        \* the request under way
  clock,       \* time since the round began
  fetched      \* the prices so far: pair -> price

vars == <<server, remaining, call, clock, fetched>>

Init ==
  /\ server \in [MonitoredPair -> Response \cup {Unreachable}]
  /\ remaining = MonitoredPair
  /\ call = Idle
  /\ clock = 0
  /\ fetched = [p \in {} |-> 0]

(* Fault: one decimal place is skipped too few.                            *)
parse_price_SkipsOne(number) ==
  LET exp == IF number.fraction_length > 1 THEN number.fraction_length - 1 ELSE 0
  IN  number.integer * TenTo(Scale) + (number.fraction * TenTo(Scale - 2)) \div TenTo(exp)

(* The number times 10^Scale.  The exponent is not looked at, and a        *)
(* fraction of one digit is taken for one of two.                          *)
parse_price(number) ==
  LET exp == IF number.fraction_length > 2 THEN number.fraction_length - 2 ELSE 0
  IN  number.integer * TenTo(Scale) + (number.fraction * TenTo(Scale - 2)) \div TenTo(exp)

(* Fault: one deadline for all requests of the round.                      *)
new_deadline_ForTheRound == Deadline

new_deadline == clock + Deadline

(* get_price returned an error: the pair is left out of the round.         *)
LeaveOut == call' = Idle /\ UNCHANGED fetched

(* The next pair of the storage iteration, which has no order to rely on.  *)
send ==
  /\ call = Idle
  /\ \E p \in remaining :
       /\ remaining' = remaining \ {p}
       /\ \/ server[p] = Unreachable /\ LeaveOut
          \/ /\ server[p] # Unreachable
             /\ call' = [pair |-> p, stage |-> "sent", deadline |-> new_deadline]
             /\ UNCHANGED fetched
  /\ UNCHANGED <<server, clock>>

At(stage) == call # Idle /\ call.stage = stage

(* pending.try_wait: the headers, or the deadline.                         *)
try_wait ==
  /\ At("sent")
  /\ LET answered == clock + server[call.pair].delay IN
     \/ /\ answered <= call.deadline
        /\ clock' = answered
        /\ call' = [call EXCEPT !.stage = "answered"]
        /\ UNCHANGED fetched
     \/ /\ answered > call.deadline
        /\ clock' = call.deadline
        /\ LeaveOut
  /\ UNCHANGED <<server, remaining>>

check_code ==
  /\ At("answered")
  /\ \/ /\ server[call.pair].code = 200
        /\ call' = [call EXCEPT !.stage = "body"]
        /\ UNCHANGED fetched
     \/ server[call.pair].code # 200 /\ LeaveOut
  /\ UNCHANGED <<server, remaining, clock>>

(* response.body() is read to its end; no deadline is set for it.          *)
read_body ==
  /\ At("body")
  /\ clock' = clock + server[call.pair].rest
  /\ LET body == server[call.pair].body IN
     \/ body = NotAPrice /\ LeaveOut
     \/ /\ body # NotAPrice
        /\ fetched' = [p \in DOMAIN fetched \cup {call.pair} |->
                         IF p = call.pair THEN parse_price(body) ELSE fetched[p]]
        /\ call' = Idle
  /\ UNCHANGED <<server, remaining>>

Next == send \/ try_wait \/ check_code \/ read_body

Spec == Init /\ [][Next]_vars

-----------------------------------------------------------------------------
(* A pair fails alone: after the round there is a price for each pair      *)
(* whose own server gave a good answer in time, however long the requests  *)
(* before it took and however they ended, and for no other (the loop of    *)
(* fetch_prices_and_update_best_paths, the deadline of get_price).         *)
GoodAnswer(r) == r # Unreachable /\ r.delay <= Deadline /\ r.code = 200 /\ r.body # NotAPrice

PairsFailAlone ==
  remaining = {} /\ call = Idle =>
     DOMAIN fetched = {p \in MonitoredPair : GoodAnswer(server[p])}

(* The number itself, cut to Scale decimal places.                         *)
Exactly(n) ==
  ((n.integer * TenTo(n.fraction_length) + n.fraction) * TenTo(Scale))
     \div TenTo(n.fraction_length - n.exponent)

(* Plain numbers are read right: the price of a pair is the number its own *)
(* server sent, to the last of Scale places, if that number is written     *)
(* without an exponent and its fraction has not just one digit             *)
(* (parse_price).                                                          *)
Plain(n) == n.exponent = 0 /\ n.fraction_length # 1

PlainPricesAreExact ==
  \A p \in DOMAIN fetched :
     Plain(server[p].body) => fetched[p] = Exactly(server[p].body)

(* Every price is the number its server sent (parse_price).                *)
PricesAreExact == \A p \in DOMAIN fetched : fetched[p] = Exactly(server[p].body)
=============================================================================
