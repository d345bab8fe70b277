---------------------------- MODULE BucketProofs ----------------------------
(***************************************************************************)
(* RateLimit's token buckets, for any rules, requests and clock readings.  *)
(*                                                                         *)
(* NeverLooser is not inductive: what CancelAt gives back depends on the   *)
(* reservations made since.  Sound adds what the denials under way hold: a *)
(* token each, to come back at most once, since no event lies before the   *)
(* time to act of one of them.                                             *)
(***************************************************************************)
EXTENDS LimitProofs

Limiter == [burst : Int, tokens : Int, last : Int, event : Int]

\* A limiter l against d, its ideal, while the denials H hold a token each that was
\* reserved at l's last reading, for the times in until.
Sound(l, d, H, until) ==
  /\ l \in Limiter /\ d \in Limiter /\ d.last <= l.last /\ d.burst = l.burst
  /\ l.event >= l.last
  /\ IsFiniteSet(H) /\ l.tokens + Cardinality(H) <= TokensAt(d, l.last)
  /\ \A r \in H :
       /\ until[r] \in Int /\ until[r] >= l.last /\ until[r] <= l.event
       /\ until[r] > l.last => until[r] <= l.last - l.tokens
  /\ \A r, q \in H : until[r] = until[q] /\ until[r] > l.last => r = q

\* The denials that hold a reservation on limiter i, made at its last reading.
Held(i) == {r \in Requests : stage[r] = "cancel" /\ lim[r] = i /\ now[r] = limiters[i].last}

BucketKept(i) ==
  /\ Sound(limiters[i], ideal[i], Held(i), act)
  /\ \A r \in Requests :
       stage[r] = "cancel" /\ lim[r] = i => now[r] <= limiters[i].last /\ Cost(r) = 1

BucketsKept == \A i \in regular : BucketKept(i)

\* What the requests hold are limiters, made for rules that want buckets.
BucketsTyped ==
  /\ limiters \in Seq(Limiter) /\ ideal \in Seq(Limiter) /\ Len(ideal) = Len(limiters)
  /\ regular \subseteq DOMAIN limiters
  /\ DOMAIN unit = Requests /\ DOMAIN lim = Requests /\ act \in [Requests -> Int]
  /\ \A k \in DOMAIN lru : lru[k].id \in DOMAIN limiters
  /\ \A i \in DOMAIN rules : rules[i].limit \in Int
  /\ \A r \in Requests :
       /\ stage[r] = "add" => at[r] \in DOMAIN rules
       /\ stage[r] \in {"take", "reserve", "cancel"} => lim[r] \in DOMAIN limiters

\* The step is r's: it leaves the calls of the others alone.
OthersStay(r) ==
  \A q \in Requests \ {r} :
    /\ stage'[q] = stage[q] /\ at'[q] = at[q] /\ unit'[q] = unit[q]
    /\ now'[q] = now[q] /\ lim'[q] = lim[q] /\ act'[q] = act[q]

\* r's use of its limiter makes it l and its ideal d.
UseStep(r, l, d) ==
  /\ OthersStay(r) /\ Use(r, l) /\ ideal' = [ideal EXCEPT ![lim[r]] = d]
  /\ rules' = rules /\ lru' = lru /\ lim' = lim /\ DOMAIN unit' = Requests
  /\ act' \in [Requests -> Int] /\ stage'[r] # "add"

\* Limiter j becomes l and its ideal d; the other regular ones stay as they are.
Changed(j, l, d) ==
  /\ limiters'[j] = l /\ ideal'[j] = d /\ regular' \subseteq regular
  /\ \A i \in regular : i # j => limiters'[i] = limiters[i] /\ ideal'[i] = ideal[i]

\* Limiter i is used in order, at reading t.
UsedAt(i, t) == limiters'[i].last = t /\ t >= limiters[i].last

\* After r's use at reading t, of the others only the denials of that reading are held.
HeldOnly(r, i, t) ==
  /\ t = limiters[i].last => Held(i)' \ {r} = Held(i) \ {r}
  /\ t > limiters[i].last => Held(i)' \ {r} = {}
  /\ \A q \in Requests \ {r} :
       stage'[q] = "cancel" /\ lim'[q] = i => now'[q] <= t /\ Cost(q)' = 1

-----------------------------------------------------------------------------
\* advance, at a reading that is not before the last one.
LEMMA Refilled ==
  ASSUME NEW l \in Limiter, NEW t \in Int, t >= l.last
  PROVE  TokensAt(l, t) = IF l.burst <= l.tokens + t - l.last
                          THEN l.burst ELSE l.tokens + t - l.last
<1>1. l.last \in Int /\ l.burst \in Int /\ l.tokens \in Int
  BY DEF Limiter
<1>2. Min({t, l.last}) = l.last
  BY <1>1, MinMaxPair
<1>3. l.tokens + t - l.last \in Int
  BY <1>1
<1>4. TokensAt(l, t) = Min({l.burst, l.tokens + t - l.last})
  BY <1>2, Zenon DEF TokensAt
<1> QED
  BY <1>1, <1>3, <1>4, MinMaxPair

\* A reservation's fields.
LEMMA Reserved ==
  ASSUME NEW l \in Limiter, NEW t \in Int, NEW n \in Int, NEW left \in Int,
         TokensAt(l, t) - n = left
  PROVE  ReserveN(l, t, n) = [burst |-> l.burst, tokens |-> left, last |-> t,
                              event |-> IF left >= 0 THEN t ELSE t - left]
<1>0. 0 \in Int /\ -left \in Int
  OBVIOUS
<1>1. Max({0, -left}) = IF 0 >= -left THEN 0 ELSE -left
  BY <1>0, MinMaxPair, Zenon
<1>2. t + Max({0, -left}) = IF left >= 0 THEN t ELSE t - left
  BY <1>1
<1>3. ReserveN(l, t, n) = [l EXCEPT !.tokens = left, !.last = t,
                                    !.event = t + Max({0, -left})]
  BY Zenon DEF ReserveN
<1> QED
  BY <1>2, <1>3 DEF Limiter

\* A limiter is sound from the start.
LEMMA SoundNew ==
  ASSUME NEW b \in Int, NEW until
  PROVE  Sound(NewLimiter(b), NewLimiter(b), {}, until)
<1> DEFINE l == NewLimiter(b)
<1>1. l \in Limiter /\ l.last = 0 /\ l.event = 0 /\ l.tokens = b /\ l.burst = b
  BY DEF NewLimiter, Limiter
<1> HIDE DEF l
<1>2. TokensAt(l, l.last) = b
  BY <1>1, Refilled
<1>3. IsFiniteSet({}) /\ Cardinality({}) = 0
  BY FS_EmptySet, Zenon
<1>4. /\ l.last <= l.last /\ l.event >= l.last
      /\ l.tokens + Cardinality({}) <= TokensAt(l, l.last)
  BY <1>1, <1>2, <1>3
<1>5. Sound(l, l, {}, until)
  BY <1>1, <1>3, <1>4, Zenon DEF Sound
<1> QED
  BY <1>5, Zenon DEF l

\* Only the times of the denials under way matter.
LEMMA SoundUntil ==
  ASSUME NEW l, NEW d, NEW H, NEW until, NEW until2, Sound(l, d, H, until),
         \A r \in H : until2[r] = until[r]
  PROVE  Sound(l, d, H, until2)
  BY Zenon DEF Sound

\* A denial reserves, at the last reading.
LEMMA SoundReserve ==
  ASSUME NEW l, NEW d, NEW H, NEW until, NEW until2, NEW r, Sound(l, d, H, until),
         r \notin H, \A q \in H : until2[q] = until[q],
         until2[r] = ReserveN(l, l.last, 1).event
  PROVE  Sound(ReserveN(l, l.last, 1), d, H \cup {r}, until2)
<1> DEFINE k == ReserveN(l, l.last, 1)
<1>1. /\ l \in Limiter /\ d \in Limiter /\ d.last <= l.last /\ d.burst = l.burst
      /\ IsFiniteSet(H) /\ l.tokens + Cardinality(H) <= TokensAt(d, l.last)
  BY Zenon DEF Sound
<1>2. /\ l.last \in Int /\ l.tokens \in Int /\ l.burst \in Int /\ l.event \in Int
      /\ d.last \in Int /\ d.tokens \in Int
  BY <1>1 DEF Limiter
<1>3. Cardinality(H) \in Nat
  BY <1>1, FS_CardinalityType, Zenon
<1>4. TokensAt(d, l.last) \in Int /\ TokensAt(d, l.last) <= l.burst
  BY <1>1, <1>2, Refilled
<1>5. TokensAt(l, l.last) = l.tokens
  BY <1>1, <1>2, <1>3, <1>4, Refilled
<1>6. k = [burst |-> l.burst, tokens |-> l.tokens - 1, last |-> l.last,
           event |-> IF l.tokens - 1 >= 0 THEN l.last ELSE l.last - (l.tokens - 1)]
  BY <1>1, <1>2, <1>5, Reserved
<1>7. /\ k \in Limiter /\ k.burst = l.burst /\ k.tokens = l.tokens - 1 /\ k.last = l.last
      /\ k.event = IF l.tokens - 1 >= 0 THEN l.last ELSE l.last - (l.tokens - 1)
  BY <1>2, <1>6 DEF Limiter
<1> HIDE DEF k
<1>8. IsFiniteSet(H \cup {r}) /\ Cardinality(H \cup {r}) = Cardinality(H) + 1
  BY <1>1, FS_AddElement, Zenon
<1>9. /\ k.event >= k.last /\ d.last <= k.last /\ d.burst = k.burst
      /\ k.tokens + Cardinality(H \cup {r}) <= TokensAt(d, k.last)
  BY <1>1, <1>2, <1>3, <1>4, <1>7, <1>8
<1>10. /\ until2[r] \in Int /\ until2[r] >= k.last /\ until2[r] <= k.event
       /\ until2[r] > k.last => until2[r] <= k.last - k.tokens
  <2>1. until2[r] = k.event
    BY Zenon DEF k
  <2> QED
    BY <1>2, <1>7, <2>1
<1>11. ASSUME NEW q \in H
       PROVE  /\ until2[q] \in Int /\ until2[q] >= k.last /\ until2[q] <= k.event
              /\ until2[q] > k.last => until2[q] <= k.last - k.tokens /\ until2[q] # until2[r]
  <2>1. /\ until2[q] \in Int /\ until2[q] >= l.last
        /\ until2[q] > l.last => until2[q] <= l.last - l.tokens
    BY Zenon DEF Sound
  <2>2. until2[r] = k.event
    BY Zenon DEF k
  <2> QED
    BY <1>2, <1>7, <2>1, <2>2
<1>12. ASSUME NEW p \in H \cup {r}, NEW q \in H \cup {r}, until2[p] = until2[q], until2[p] > k.last
       PROVE  p = q
  <2>1. CASE p \in H /\ q \in H
    <3>1. until[p] = until[q] /\ until[p] > l.last
      BY <1>7, <1>12, <2>1, Zenon
    <3> QED
      BY <2>1, <3>1, Zenon DEF Sound
  <2>2. CASE ~(p \in H /\ q \in H)
    BY <1>11, <1>12, <2>2, Zenon
  <2> QED
    BY <2>1, <2>2, Zenon
<1>13. Sound(k, d, H \cup {r}, until2)
  BY <1>1, <1>7, <1>8, <1>9, <1>10, <1>11, <1>12, Zenon DEF Sound
<1> QED
  BY <1>13, Zenon DEF k

\* A denial reserves, at a later reading: what was under way is overtaken.
LEMMA SoundReserveLater ==
  ASSUME NEW l, NEW d, NEW H, NEW until, NEW until2, NEW r, Sound(l, d, H, until),
         NEW t \in Int, t > l.last, until2[r] = ReserveN(l, t, 1).event
  PROVE  Sound(ReserveN(l, t, 1), d, {r}, until2)
<1> DEFINE k == ReserveN(l, t, 1)
           left == TokensAt(l, t) - 1
<1>1. /\ l \in Limiter /\ d \in Limiter /\ d.last <= l.last /\ d.burst = l.burst
      /\ IsFiniteSet(H) /\ l.tokens + Cardinality(H) <= TokensAt(d, l.last)
  BY Zenon DEF Sound
<1>2. /\ l.last \in Int /\ l.tokens \in Int /\ l.burst \in Int
      /\ d.last \in Int /\ d.tokens \in Int
  BY <1>1 DEF Limiter
<1>3. Cardinality(H) \in Nat
  BY <1>1, FS_CardinalityType, Zenon
<1>4. /\ TokensAt(d, l.last) = IF l.burst <= d.tokens + l.last - d.last
                               THEN l.burst ELSE d.tokens + l.last - d.last
      /\ TokensAt(d, t) = IF l.burst <= d.tokens + t - d.last
                          THEN l.burst ELSE d.tokens + t - d.last
      /\ TokensAt(l, t) = IF l.burst <= l.tokens + t - l.last
                          THEN l.burst ELSE l.tokens + t - l.last
  BY <1>1, <1>2, Refilled
<1>5. TokensAt(l, t) <= TokensAt(d, t) /\ left \in Int /\ TokensAt(d, t) \in Int
  BY <1>1, <1>2, <1>3, <1>4
<1>6. k = [burst |-> l.burst, tokens |-> left, last |-> t,
           event |-> IF left >= 0 THEN t ELSE t - left]
  BY <1>1, <1>5, Reserved
<1>7. left + 1 <= TokensAt(d, t)
  BY <1>2, <1>4, <1>5
<1> HIDE DEF left
<1>8. /\ k \in Limiter /\ k.burst = l.burst /\ k.tokens = left /\ k.last = t
      /\ k.event = IF left >= 0 THEN t ELSE t - left
  BY <1>2, <1>5, <1>6 DEF Limiter
<1> HIDE DEF k
<1>9. IsFiniteSet({r}) /\ Cardinality({r}) = 1
  BY FS_Singleton, Zenon
<1>10. /\ k.event >= k.last /\ d.last <= k.last /\ d.burst = k.burst
       /\ k.tokens + Cardinality({r}) <= TokensAt(d, k.last)
  BY <1>1, <1>2, <1>5, <1>7, <1>8, <1>9
<1>11. /\ until2[r] \in Int /\ until2[r] >= k.last /\ until2[r] <= k.event
       /\ until2[r] > k.last => until2[r] <= k.last - k.tokens
  <2>1. until2[r] = k.event
    BY Zenon DEF k
  <2> QED
    BY <1>5, <1>8, <2>1
<1>12. Sound(k, d, {r}, until2)
  BY <1>1, <1>8, <1>9, <1>10, <1>11, Zenon DEF Sound
<1> QED
  BY <1>12, Zenon DEF k

\* AllowN takes tokens from both.
LEMMA SoundTake ==
  ASSUME NEW l, NEW d, NEW H, NEW K, NEW until, Sound(l, d, H, until),
         NEW t \in Int, NEW n \in Nat, Allows(l, t, n),
         \/ t = l.last /\ K = H
         \/ t > l.last /\ K = {}
  PROVE  Sound(ReserveN(l, t, n), ReserveN(d, t, n), K, until)
<1> DEFINE k == ReserveN(l, t, n)
           e == ReserveN(d, t, n)
           left == TokensAt(l, t) - n
           rest == TokensAt(d, t) - n
<1>1. /\ l \in Limiter /\ d \in Limiter /\ d.last <= l.last /\ d.burst = l.burst
      /\ IsFiniteSet(H) /\ l.tokens + Cardinality(H) <= TokensAt(d, l.last)
  BY Zenon DEF Sound
<1>2. /\ l.last \in Int /\ l.tokens \in Int /\ l.burst \in Int
      /\ d.last \in Int /\ d.tokens \in Int /\ t >= l.last /\ t >= d.last
  BY <1>1 DEF Limiter
<1>3. /\ Cardinality(H) \in Nat /\ IsFiniteSet(K) /\ Cardinality(K) \in Nat
      /\ Cardinality({}) = 0
  BY <1>1, FS_CardinalityType, FS_EmptySet, Zenon
<1>4. /\ TokensAt(d, l.last) = IF l.burst <= d.tokens + l.last - d.last
                               THEN l.burst ELSE d.tokens + l.last - d.last
      /\ TokensAt(d, t) = IF l.burst <= d.tokens + t - d.last
                          THEN l.burst ELSE d.tokens + t - d.last
      /\ TokensAt(l, t) = IF l.burst <= l.tokens + t - l.last
                          THEN l.burst ELSE l.tokens + t - l.last
  BY <1>1, <1>2, Refilled
<1>5. /\ TokensAt(l, t) + Cardinality(K) <= TokensAt(d, t)
      /\ left \in Int /\ rest \in Int /\ left >= 0 /\ rest >= 0 /\ rest <= l.burst
  <2>1. TokensAt(l, t) \in Int /\ TokensAt(d, t) \in Int /\ TokensAt(d, t) <= l.burst
    BY <1>2, <1>4
  <2>2. TokensAt(l, t) >= n
    BY Zenon DEF Allows
  <2>3. TokensAt(l, t) + Cardinality(K) <= TokensAt(d, t)
    <3>1. CASE t = l.last /\ K = H
      BY <1>1, <1>2, <1>3, <1>4, <3>1
    <3>2. CASE t > l.last /\ K = {}
      BY <1>1, <1>2, <1>3, <1>4, <3>2
    <3> QED
      BY <3>1, <3>2, Zenon
  <2> QED
    BY <1>2, <1>3, <2>1, <2>2, <2>3
<1>6. /\ k = [burst |-> l.burst, tokens |-> left, last |-> t,
              event |-> IF left >= 0 THEN t ELSE t - left]
      /\ e = [burst |-> d.burst, tokens |-> rest, last |-> t,
              event |-> IF rest >= 0 THEN t ELSE t - rest]
  BY <1>1, <1>5, Reserved
<1>7. left + Cardinality(K) <= rest
  BY <1>2, <1>3, <1>4, <1>5
<1> HIDE DEF left, rest
<1>8. /\ k \in Limiter /\ k.burst = l.burst /\ k.tokens = left /\ k.last = t /\ k.event = t
      /\ e \in Limiter /\ e.burst = d.burst /\ e.tokens = rest /\ e.last = t
  BY <1>1, <1>2, <1>5, <1>6 DEF Limiter
<1> HIDE DEF k, e
<1>9. TokensAt(e, k.last) = rest
  BY <1>1, <1>2, <1>5, <1>8, Refilled
<1>10. /\ k.event >= k.last /\ e.last <= k.last /\ e.burst = k.burst
       /\ k.tokens + Cardinality(K) <= TokensAt(e, k.last)
  BY <1>1, <1>7, <1>8, <1>9
<1>11. ASSUME NEW q \in K
       PROVE  until[q] = t
  <2>1. q \in H /\ t = l.last
    BY Zenon
  <2>2. /\ until[q] \in Int /\ until[q] >= l.last
        /\ until[q] > l.last => until[q] <= l.last - l.tokens
    BY <2>1, Zenon DEF Sound
  <2>3. TokensAt(l, t) >= n
    BY Zenon DEF Allows
  <2>4. l.tokens >= 0
    BY <1>2, <1>4, <2>1, <2>3
  <2> QED
    BY <1>2, <2>1, <2>2, <2>4
<1>12. \A q \in K : /\ until[q] \in Int /\ until[q] >= k.last /\ until[q] <= k.event
                    /\ ~(until[q] > k.last)
  BY <1>8, <1>11
<1>13. Sound(k, e, K, until)
  BY <1>3, <1>8, <1>10, <1>12, Zenon DEF Sound
<1> QED
  BY <1>13, Zenon DEF k, e

\* CancelAt gives the token back, or, when others reserved since, nothing.
LEMMA SoundCancel ==
  ASSUME NEW l, NEW d, NEW H, NEW until, Sound(l, d, H, until), NEW r \in H
  PROVE  Sound(CancelAt(l, l.last, 1, until[r]), d, H \ {r}, until)
<1> DEFINE k == CancelAt(l, l.last, 1, until[r])
           a == until[r]
           restore == 1 - (l.event - a)
<1>1. /\ l \in Limiter /\ d \in Limiter /\ d.last <= l.last /\ d.burst = l.burst
      /\ IsFiniteSet(H) /\ l.tokens + Cardinality(H) <= TokensAt(d, l.last)
      /\ l.event >= l.last
  BY Zenon DEF Sound
<1>2. /\ l.last \in Int /\ l.tokens \in Int /\ l.burst \in Int /\ l.event \in Int
      /\ d.last \in Int /\ d.tokens \in Int
  BY <1>1 DEF Limiter
<1>3. IsFiniteSet(H \ {r}) /\ Cardinality(H \ {r}) = Cardinality(H) - 1
  BY <1>1, FS_RemoveElement, Zenon
<1>4. Cardinality(H) \in Nat /\ Cardinality(H \ {r}) \in Nat
  BY <1>1, <1>3, FS_CardinalityType, Zenon
<1>5. TokensAt(d, l.last) \in Int /\ TokensAt(d, l.last) <= l.burst
  BY <1>1, <1>2, Refilled
<1>6. TokensAt(l, l.last) = l.tokens
  BY <1>1, <1>2, <1>4, <1>5, Refilled
<1>7. /\ a \in Int /\ a >= l.last /\ a <= l.event
      /\ a > l.last => a <= l.last - l.tokens
  BY Zenon DEF Sound
<1> HIDE DEF a
<1>8. CASE a < l.event
  <2>1. restore <= 0
    BY <1>2, <1>7, <1>8
  <2>2. k = l
    BY <2>1, Zenon DEF CancelAt, a
  <2>3. l.tokens + Cardinality(H \ {r}) <= TokensAt(d, l.last)
    BY <1>1, <1>2, <1>3, <1>4, <1>5
  <2>4. Sound(l, d, H \ {r}, until)
    BY <1>1, <1>3, <2>3, Zenon DEF Sound
  <2> QED
    BY <2>2, <2>4, Zenon
<1>9. CASE a = l.event
  <2> DEFINE event == IF a - 1 >= l.last THEN a - 1 ELSE a
  <2>1. restore = 1 /\ ~(a < l.last)
    BY <1>2, <1>7, <1>9
  <2>2. k = [burst |-> l.burst, tokens |-> Min({l.burst, l.tokens + 1}), last |-> l.last,
             event |-> event]
    <3>1. k = LET back == [l EXCEPT !.tokens = Min({l.burst, TokensAt(l, l.last) + 1}),
                                    !.last = l.last] IN
              IF a - 1 >= l.last THEN [back EXCEPT !.event = a - 1] ELSE back
      <4>1. ~(a < l.last \/ restore <= 0)
        BY <2>1
      <4> QED
        BY <1>9, <2>1, <4>1, Zenon DEF CancelAt, a
    <3> QED
      BY <1>1, <1>6, <1>9, <3>1 DEF Limiter
  <2>3. Min({l.burst, l.tokens + 1}) = l.tokens + 1
    <3>1. Cardinality(H) >= 1
      BY <1>3, <1>4
    <3>2. l.tokens + 1 <= l.burst /\ l.tokens + 1 \in Int
      BY <1>1, <1>2, <1>4, <1>5, <3>1
    <3> QED
      BY <1>2, <3>2, MinMaxPair
  <2>4. event \in Int
    BY <1>7
  <2> HIDE DEF event
  <2>5. /\ k \in Limiter /\ k.burst = l.burst /\ k.tokens = l.tokens + 1 /\ k.last = l.last
        /\ k.event = event
    BY <1>2, <2>2, <2>3, <2>4 DEF Limiter
  <2> HIDE DEF k
  <2>6. /\ k.event >= k.last /\ d.last <= k.last /\ d.burst = k.burst
        /\ k.tokens + Cardinality(H \ {r}) <= TokensAt(d, k.last)
    BY <1>1, <1>2, <1>3, <1>4, <1>5, <1>7, <2>5 DEF event
  <2>7. ASSUME NEW q \in H \ {r}
        PROVE  /\ until[q] \in Int /\ until[q] >= k.last /\ until[q] <= k.event
               /\ until[q] > k.last => until[q] <= k.last - k.tokens
    <3>1. /\ until[q] \in Int /\ until[q] >= l.last /\ until[q] <= l.event
          /\ until[q] = a => ~(a > l.last)
      BY Zenon DEF Sound, a
    <3> QED
      BY <1>2, <1>7, <1>9, <2>5, <3>1 DEF event
  <2>8. \A p, q \in H \ {r} : until[p] = until[q] /\ until[p] > k.last => p = q
    BY <2>5, Zenon DEF Sound
  <2>9. Sound(k, d, H \ {r}, until)
    BY <1>1, <1>3, <2>5, <2>6, <2>7, <2>8, Zenon DEF Sound
  <2> QED
    BY <2>9, Zenon DEF k, a
<1> QED
  BY <1>2, <1>7, <1>8, <1>9

-----------------------------------------------------------------------------
\* The operations of a limiter yield a limiter.
LEMMA LimiterTyped ==
  ASSUME NEW l \in Limiter, NEW t \in Int, NEW n \in Int, NEW a \in Int
  PROVE  /\ TokensAt(l, t) \in Int
         /\ ReserveN(l, t, n) \in Limiter /\ ReserveN(l, t, n).last = t
         /\ CancelAt(l, t, n, a) \in Limiter
         /\ t = l.last => CancelAt(l, t, n, a).last = t
<1>1. l.last \in Int /\ l.tokens \in Int /\ l.burst \in Int /\ l.event \in Int
  BY DEF Limiter
<1>2. ASSUME NEW x \in Int, NEW y \in Int PROVE Min({x, y}) \in Int
  BY MinMaxPair
<1>3. TokensAt(l, t) \in Int
  <2>1. Min({t, l.last}) \in Int
    BY <1>1, <1>2, Zenon
  <2>2. l.tokens + t - Min({t, l.last}) \in Int
    BY <1>1, <2>1
  <2> QED
    BY <1>1, <1>2, <2>2, Zenon DEF TokensAt
<1>4. ReserveN(l, t, n) \in Limiter /\ ReserveN(l, t, n).last = t
  <2>1. TokensAt(l, t) - n \in Int
    BY <1>3
  <2> DEFINE left == TokensAt(l, t) - n
  <2>2. ReserveN(l, t, n) = [burst |-> l.burst, tokens |-> left, last |-> t,
                             event |-> IF left >= 0 THEN t ELSE t - left]
    BY <2>1, Reserved, Zenon
  <2> HIDE DEF left
  <2> QED
    BY <1>1, <2>1, <2>2 DEF Limiter, left
<1>5. CancelAt(l, t, n, a) \in Limiter /\ (t = l.last => CancelAt(l, t, n, a).last = t)
  <2> DEFINE tokens == Min({l.burst, TokensAt(l, t) + (n - (l.event - a))})
             back == [l EXCEPT !.tokens = tokens, !.last = t]
  <2>1. tokens \in Int
    <3>1. TokensAt(l, t) + (n - (l.event - a)) \in Int
      BY <1>1, <1>3
    <3> QED
      BY <1>1, <1>2, <3>1, Zenon
  <2>2. \/ CancelAt(l, t, n, a) = l
        \/ CancelAt(l, t, n, a) = back
        \/ CancelAt(l, t, n, a) = [back EXCEPT !.event = a - n]
    BY Zenon DEF CancelAt
  <2> HIDE DEF tokens
  <2>3. ASSUME NEW k \in Limiter, NEW x \in Int
        PROVE  /\ [k EXCEPT !.tokens = x, !.last = t] \in Limiter
               /\ [k EXCEPT !.tokens = x, !.last = t].last = t
               /\ [k EXCEPT !.event = x] \in Limiter /\ [k EXCEPT !.event = x].last = k.last
    BY DEF Limiter
  <2>4. a - n \in Int
    OBVIOUS
  <2>5. back \in Limiter /\ back.last = t
    BY <2>1, <2>3, Zenon
  <2> HIDE DEF back
  <2>6. [back EXCEPT !.event = a - n] \in Limiter /\ [back EXCEPT !.event = a - n].last = t
    BY <2>3, <2>4, <2>5, Zenon
  <2> QED
    BY <2>2, <2>5, <2>6, Zenon
<1> QED
  BY <1>3, <1>4, <1>5, Zenon

\* The same for a reservation alone.
LEMMA ReserveTyped ==
  ASSUME NEW l \in Limiter, NEW t \in Int, NEW n \in Int
  PROVE  ReserveN(l, t, n) \in Limiter /\ ReserveN(l, t, n).last = t
<1>1. 0 \in Int
  OBVIOUS
<1> QED
  BY <1>1, LimiterTyped, Zenon

\* A limiter that the step neither uses nor reserves from stays as it is.
LEMMA AsideKept ==
  ASSUME NEW r \in Requests, OthersStay(r), NEW i, BucketKept(i),
         limiters'[i] = limiters[i], ideal'[i] = ideal[i],
         ~(stage[r] = "cancel" /\ lim[r] = i), ~(stage'[r] = "cancel" /\ lim'[r] = i)
  PROVE  BucketKept(i)'
<1>1. Held(i)' = Held(i) /\ \A q \in Held(i) : act'[q] = act[q]
  BY Zenon DEF Held, OthersStay
<1>2. Sound(limiters'[i], ideal'[i], Held(i)', act')
  <2>1. Sound(limiters[i], ideal[i], Held(i), act)
    BY Zenon DEF BucketKept
  <2>2. Sound(limiters[i], ideal[i], Held(i), act')
    BY <1>1, <2>1, SoundUntil, Zenon
  <2> QED
    BY <1>1, <2>2, Zenon
<1>3. \A q \in Requests :
        stage'[q] = "cancel" /\ lim'[q] = i =>
          now'[q] <= limiters'[i].last /\ Cost(q)' = 1
  BY Zenon DEF BucketKept, OthersStay, Cost
<1> QED
  BY <1>2, <1>3, Zenon DEF BucketKept

\* A step that changes no limiter, and in which r neither had nor gets a reservation.
LEMMA AsideBuckets ==
  ASSUME BucketsKept, NEW r \in Requests, OthersStay(r), limiters' = limiters, ideal' = ideal,
         regular' = regular, stage[r] # "cancel", stage'[r] # "cancel"
  PROVE  BucketsKept'
  BY AsideKept, Zenon DEF BucketsKept

\* A step that changes nothing BucketsKept speaks of.
LEMMA StillBuckets ==
  ASSUME BucketsKept, limiters' = limiters, ideal' = ideal, regular' = regular, stage' = stage,
         lim' = lim, now' = now, act' = act, unit' = unit
  PROVE  BucketsKept'
  BY Zenon DEF BucketsKept, BucketKept, Held, Cost

\* A step of one request keeps BucketsTyped if that request is still in order.
LEMMA TypedStep ==
  ASSUME BucketsTyped, NEW r \in Requests, OthersStay(r), rules' = rules,
         limiters' \in Seq(Limiter), ideal' \in Seq(Limiter), Len(ideal') = Len(limiters'),
         DOMAIN limiters \subseteq DOMAIN limiters', regular' \subseteq DOMAIN limiters',
         DOMAIN unit' = Requests, DOMAIN lim' = Requests, act' \in [Requests -> Int],
         \A k \in DOMAIN lru' : lru'[k].id \in DOMAIN limiters',
         stage'[r] = "add" => at'[r] \in DOMAIN rules,
         stage'[r] \in {"take", "reserve", "cancel"} => lim'[r] \in DOMAIN limiters'
  PROVE  BucketsTyped'
<1>1. ASSUME NEW q \in Requests
      PROVE  /\ stage'[q] = "add" => at'[q] \in DOMAIN rules'
             /\ stage'[q] \in {"take", "reserve", "cancel"} => lim'[q] \in DOMAIN limiters'
  <2>1. CASE q = r
    BY <2>1, Zenon
  <2>2. CASE q # r
    BY <2>2, Zenon DEF OthersStay, BucketsTyped
  <2> QED
    BY <2>1, <2>2, Zenon
<1>2. \A i \in DOMAIN rules' : rules'[i].limit \in Int
  BY Zenon DEF BucketsTyped
<1> QED
  BY <1>1, <1>2, Zenon DEF BucketsTyped

\* A verdict moves only r, on to a rule or out.
LEMMA VerdictStays ==
  ASSUME CallsTyped, BucketsTyped, NEW r \in Requests, now' = now, lim' = lim, 
         \A q \in Requests \ {r} : act'[q] = act[q],
         \/ \E u, i : Check(r, u, i)
         \/ \E after : Denied(r, after)
  PROVE  OthersStay(r) /\ DOMAIN unit' = Requests /\ stage'[r] \in {"call", "done"}
<1>1. /\ \A q \in Requests \ {r} : stage'[q] = stage[q] /\ at'[q] = at[q]
      /\ stage'[r] \in {"call", "done"}
  <2>1. CASE \E u, i : Check(r, u, i)
    <3>1. Goto(r, "call") \/ Goto(r, "done")
      BY <2>1, Zenon DEF Check
    <3> QED
      BY <2>1, <3>1, CheckMoves, Zenon DEF Goto, CallsTyped
  <2>2. CASE \E after : Denied(r, after)
    BY <2>2, DeniedMoves, Zenon
  <2> QED
    BY <2>1, <2>2, Zenon
<1>2. unit' = unit \/ \E u : unit' = [unit EXCEPT ![r] = u]
  BY Zenon DEF Check, Denied
<1>3. DOMAIN unit = Requests
  BY Zenon DEF BucketsTyped
<1>4. DOMAIN unit' = Requests /\ \A q \in Requests \ {r} : unit'[q] = unit[q]
  BY <1>2, <1>3, Zenon
<1> QED
  BY <1>1, <1>4, Zenon DEF OthersStay

\* Arriving, and what happens between a gateway and Redis, leaves the buckets alone.
LEMMA RemoteBuckets ==
  ASSUME CallsTyped, BucketsTyped, BucketsKept, NEW r \in Requests,
         Arrive(r) \/ Send(r) \/ Script(r) \/ ScriptResent(r) \/ ScriptFails(r)
  PROVE  BucketsTyped' /\ BucketsKept'
<1>1. /\ lru' = lru /\ limiters' = limiters /\ lim' = lim /\ act' = act /\ ideal' = ideal
      /\ regular' = regular /\ rules' = rules
  BY Zenon DEF Arrive, Send, Script, ScriptResent, ScriptFails, local
<1>2. stage[r] \in {"idle", "call", "script"}
  BY Zenon DEF Arrive, Send, Script, ScriptResent, ScriptFails
<1>3. /\ OthersStay(r) /\ DOMAIN unit' = Requests
      /\ stage'[r] \in {"call", "script", "done"}
  <2>1. CASE Arrive(r) \/ Script(r) \/ ScriptFails(r)
    <3>1. now' = now /\ ((\E u, i : Check(r, u, i)) \/ (\E after : Denied(r, after)))
      BY <2>1, Zenon DEF Arrive, Script, ScriptFails, Allowed, FailOpen
    <3> QED
      BY <1>1, <3>1, VerdictStays, Zenon
  <2>2. CASE Send(r)
    <3>1. /\ now' = [now EXCEPT ![r] = clock + Skew[gateway[r]]] /\ unit' = unit /\ at' = at
          /\ stage' = [stage EXCEPT ![r] = "script"]
      BY <2>2, Zenon DEF Send, ReadClock, Goto
    <3> QED
      BY <1>1, <3>1, Zenon DEF OthersStay, CallsTyped, BucketsTyped
  <2>3. CASE ScriptResent(r)
    BY <1>1, <1>2, <2>3, Zenon DEF ScriptResent, call, OthersStay, BucketsTyped
  <2> QED
    BY <2>1, <2>2, <2>3, Zenon
<1>4. stage[r] # "cancel" /\ stage'[r] \notin {"add", "take", "reserve", "cancel"}
  BY <1>2, <1>3, Zenon
<1>5. BucketsTyped'
  BY <1>1, <1>3, <1>4, TypedStep, Zenon DEF BucketsTyped
<1> QED
  BY <1>1, <1>3, <1>4, <1>5, AsideBuckets, Zenon

\* cache.Get yields a limiter that was made.
LEMMA GetBuckets ==
  ASSUME CallsTyped, BucketsTyped, BucketsKept, NEW r \in Requests, Get(r)
  PROVE  BucketsTyped' /\ BucketsKept'
<1>1. /\ lru' = lru /\ limiters' = limiters /\ act' = act /\ ideal' = ideal
      /\ regular' = regular /\ rules' = rules /\ unit' = unit /\ at' = at
      /\ now' = [now EXCEPT ![r] = clock + Skew[gateway[r]]]
      /\ stage[r] = "call"
  BY Zenon DEF Get, ReadClock
<1>2. \/ /\ stage' = [stage EXCEPT ![r] = "take"]
         /\ \E k \in DOMAIN lru : lim' = [lim EXCEPT ![r] = lru[k].id]
      \/ stage' = [stage EXCEPT ![r] = "add"] /\ lim' = [lim EXCEPT ![r] = 0]
  BY Zenon DEF Get, Goto
<1>3. /\ DOMAIN stage = Requests /\ DOMAIN now = Requests /\ DOMAIN lim = Requests
      /\ at[r] \in DOMAIN rules
  BY <1>1, Zenon DEF CallsTyped, BucketsTyped
<1>4. OthersStay(r) /\ DOMAIN lim' = Requests /\ stage'[r] \in {"take", "add"}
  BY <1>1, <1>2, <1>3, Zenon DEF OthersStay
<1>5. stage'[r] = "take" => lim'[r] \in DOMAIN limiters
  BY <1>2, <1>3, Zenon DEF BucketsTyped
<1>6. stage'[r] \in {"take", "reserve", "cancel"} => lim'[r] \in DOMAIN limiters
  BY <1>4, <1>5, Zenon
<1>7. BucketsTyped'
  BY <1>1, <1>3, <1>4, <1>6, TypedStep, Zenon DEF BucketsTyped
<1>8. stage[r] # "cancel" /\ stage'[r] # "cancel"
  BY <1>1, <1>4, Zenon
<1> QED
  BY <1>1, <1>4, <1>7, <1>8, AsideBuckets, Zenon

\* Two sequences of limiters with one more each.
LEMMA AppendBoth ==
  ASSUME NEW s \in Seq(Limiter), NEW d \in Seq(Limiter), Len(d) = Len(s), NEW l \in Limiter,
         NEW s2, NEW d2, s2 = Append(s, l), d2 = Append(d, l)
  PROVE  /\ s2 \in Seq(Limiter) /\ d2 \in Seq(Limiter) /\ Len(d2) = Len(s2)
         /\ DOMAIN s \subseteq DOMAIN s2 /\ Len(s) + 1 \in DOMAIN s2
         /\ Len(s) + 1 \notin DOMAIN s /\ s2[Len(s) + 1] = l /\ d2[Len(s) + 1] = l
         /\ \A i \in DOMAIN s : s2[i] = s[i] /\ d2[i] = d[i]
<1>1. /\ s2 \in Seq(Limiter) /\ d2 \in Seq(Limiter) /\ Len(d2) = Len(s2)
      /\ DOMAIN s \subseteq DOMAIN s2 /\ Len(s) + 1 \in DOMAIN s2
      /\ Len(s) + 1 \notin DOMAIN s
  OBVIOUS
<1>2. s2[Len(s) + 1] = l /\ d2[Len(s) + 1] = l
  OBVIOUS
<1>3. \A i \in DOMAIN s : s2[i] = s[i] /\ d2[i] = d[i]
  OBVIOUS
<1> QED
  BY <1>1, <1>2, <1>3, Zenon

\* Two sequences of limiters with one replaced in each.
LEMMA ReplaceBoth ==
  ASSUME NEW s \in Seq(Limiter), NEW d \in Seq(Limiter), Len(d) = Len(s), NEW j \in DOMAIN s,
         NEW l \in Limiter, NEW e \in Limiter,
         NEW s2, NEW d2, s2 = [s EXCEPT ![j] = l], d2 = [d EXCEPT ![j] = e]
  PROVE  /\ s2 \in Seq(Limiter) /\ d2 \in Seq(Limiter) /\ Len(d2) = Len(s2)
         /\ DOMAIN s2 = DOMAIN s /\ s2[j] = l /\ d2[j] = e
         /\ \A i \in DOMAIN s : i # j => s2[i] = s[i] /\ d2[i] = d[i]
<1>1. DOMAIN d = DOMAIN s
  OBVIOUS
<1>2. /\ s2 \in Seq(Limiter) /\ d2 \in Seq(Limiter) /\ Len(d2) = Len(s2)
      /\ DOMAIN s2 = DOMAIN s
  OBVIOUS
<1>3. /\ s2[j] = l /\ d2[j] = e
      /\ \A i \in DOMAIN s : i # j => s2[i] = s[i] /\ d2[i] = d[i]
  BY <1>1, Zenon
<1> QED
  BY <1>2, <1>3, Zenon

\* A new bucket is full, and nobody holds a reservation on it.
LEMMA AddBuckets ==
  ASSUME CallsTyped, BucketsTyped, BucketsKept, NEW r \in Requests, Add(r)
  PROVE  BucketsTyped' /\ BucketsKept'
<1> DEFINE id == Len(limiters) + 1
           fresh == NewLimiter(Limit(r))
<1>1. /\ stage[r] = "add" /\ limiters' = Append(limiters, fresh)
      /\ ideal' = Append(ideal, fresh) /\ regular' = regular \cup {id}
      /\ \E k, x : lru' = Put(lru, k, [id |-> id, dies |-> x])
      /\ lim' = [lim EXCEPT ![r] = id] /\ stage' = [stage EXCEPT ![r] = "take"]
      /\ rules' = rules /\ unit' = unit /\ at' = at /\ now' = now /\ act' = act
  BY Zenon DEF Add, Goto, call
<1>2. Limit(r) \in Int
  BY <1>1, Zenon DEF BucketsTyped, Limit
<1>3. fresh \in Limiter
  BY <1>2 DEF NewLimiter, Limiter
<1>4. /\ limiters \in Seq(Limiter) /\ ideal \in Seq(Limiter) /\ Len(ideal) = Len(limiters)
      /\ DOMAIN stage = Requests /\ DOMAIN lim = Requests
  BY Zenon DEF BucketsTyped, CallsTyped
<1> HIDE DEF fresh
<1>5. /\ limiters' \in Seq(Limiter) /\ ideal' \in Seq(Limiter) /\ Len(ideal') = Len(limiters')
      /\ DOMAIN limiters \subseteq DOMAIN limiters' /\ id \in DOMAIN limiters'
      /\ id \notin DOMAIN limiters /\ limiters'[id] = fresh /\ ideal'[id] = fresh
      /\ \A i \in DOMAIN limiters : limiters'[i] = limiters[i] /\ ideal'[i] = ideal[i]
  BY <1>1, <1>3, <1>4, AppendBoth
<1> HIDE DEF id
<1>6. OthersStay(r) /\ stage'[r] = "take" /\ lim'[r] = id /\ DOMAIN lim' = Requests
  BY <1>1, <1>4, Zenon DEF OthersStay
<1>7. \A k \in DOMAIN lru' : lru'[k].id \in DOMAIN limiters'
  <2>1. PICK k, x : lru' = Put(lru, k, [id |-> id, dies |-> x])
    BY <1>1, Zenon
  <2>2. ASSUME NEW j \in DOMAIN lru' PROVE lru'[j].id \in DOMAIN limiters'
    <3>1. j \in DOMAIN lru \cup {k} /\ lru'[j] = IF j = k THEN [id |-> id, dies |-> x] ELSE lru[j]
      BY <2>1, Zenon DEF Put
    <3>2. CASE j = k
      <4>1. lru'[j].id = id
        BY <3>1, <3>2
      <4> QED
        BY <1>5, <4>1, Zenon
    <3>3. CASE j # k
      BY <1>5, <3>1, <3>3, Zenon DEF BucketsTyped
    <3> QED
      BY <3>2, <3>3, Zenon
  <2> QED
    BY <2>2, Zenon
<1>8. BucketsTyped'
  <2>1. regular' \subseteq DOMAIN limiters'
    BY <1>1, <1>5, Zenon DEF BucketsTyped
  <2>2. DOMAIN unit' = Requests /\ act' \in [Requests -> Int]
    BY <1>1, Zenon DEF BucketsTyped
  <2>3. stage'[r] # "add" /\ lim'[r] \in DOMAIN limiters'
    BY <1>5, <1>6, Zenon
  <2> QED
    BY <1>1, <1>5, <1>6, <1>7, <2>1, <2>2, <2>3, TypedStep, Zenon
<1>9. ASSUME NEW i \in regular' PROVE BucketKept(i)'
  <2>1. CASE i = id
    <3>1. ASSUME NEW q \in Requests PROVE ~(stage'[q] = "cancel" /\ lim'[q] = i)
      <4>1. stage[q] = "cancel" => lim[q] # id
        BY <1>5, Zenon DEF BucketsTyped
      <4> QED
        BY <1>6, <2>1, <4>1, Zenon DEF OthersStay
    <3>2. Held(i)' = {}
      BY <3>1, Zenon DEF Held
    <3>3. Sound(fresh, fresh, {}, act')
      BY <1>2, SoundNew, Zenon DEF fresh
    <3> QED
      BY <1>5, <2>1, <3>1, <3>2, <3>3, Zenon DEF BucketKept
  <2>2. CASE i # id
    <3>1. i \in regular /\ i \in DOMAIN limiters
      BY <1>1, <2>2, Zenon DEF BucketsTyped
    <3>2. BucketKept(i) /\ limiters'[i] = limiters[i] /\ ideal'[i] = ideal[i]
      BY <1>5, <3>1, Zenon DEF BucketsKept
    <3>3. stage[r] # "cancel" /\ stage'[r] # "cancel"
      BY <1>1, <1>6, Zenon
    <3> QED
      BY <1>6, <3>2, <3>3, AsideKept, Zenon
  <2> QED
    BY <2>1, <2>2, Zenon
<1> QED
  BY <1>8, <1>9, Zenon DEF BucketsKept

\* A use of r's limiter that makes it l and its ideal d.
LEMMA UseTyped ==
  ASSUME CallsTyped, BucketsTyped, NEW r \in Requests, lim[r] \in DOMAIN limiters,
         NEW l \in Limiter, NEW d \in Limiter, UseStep(r, l, d)
  PROVE  BucketsTyped' /\ Changed(lim[r], l, d)
<1>1. /\ limiters \in Seq(Limiter) /\ ideal \in Seq(Limiter)
      /\ Len(ideal) = Len(limiters) /\ regular \subseteq DOMAIN limiters
  BY Zenon DEF BucketsTyped
<1>2. limiters' = [limiters EXCEPT ![lim[r]] = l] /\ regular' \subseteq regular
  BY Zenon DEF UseStep, Use
<1>7. ideal' = [ideal EXCEPT ![lim[r]] = d]
  BY Zenon DEF UseStep
<1>3. /\ limiters' \in Seq(Limiter) /\ ideal' \in Seq(Limiter) /\ Len(ideal') = Len(limiters')
      /\ DOMAIN limiters' = DOMAIN limiters
      /\ limiters'[lim[r]] = l /\ ideal'[lim[r]] = d
      /\ \A i \in DOMAIN limiters :
           i # lim[r] => limiters'[i] = limiters[i] /\ ideal'[i] = ideal[i]
  BY <1>1, <1>2, <1>7, ReplaceBoth
<1>4. \A i \in regular : i # lim[r] => limiters'[i] = limiters[i] /\ ideal'[i] = ideal[i]
  BY <1>1, <1>3, Zenon
<1>5. /\ regular' \subseteq DOMAIN limiters' /\ DOMAIN limiters \subseteq DOMAIN limiters'
      /\ DOMAIN lim' = Requests /\ \A k \in DOMAIN lru' : lru'[k].id \in DOMAIN limiters'
      /\ lim'[r] \in DOMAIN limiters'
  BY <1>1, <1>2, <1>3, Zenon DEF UseStep, BucketsTyped
<1>6. BucketsTyped'
  BY <1>3, <1>5, TypedStep, Zenon DEF UseStep
<1> QED
  BY <1>2, <1>3, <1>4, <1>6, Zenon DEF Changed

\* A use in order overtakes the denials of earlier readings.
LEMMA HeldAfter ==
  ASSUME CallsTyped, NEW r \in Requests, OthersStay(r), NEW i, BucketKept(i),
         NEW t \in Int, UsedAt(i, t)
  PROVE  HeldOnly(r, i, t)
<1>1. limiters[i].last \in Int
  <2>1. limiters[i] \in Limiter
    BY Zenon DEF BucketKept, Sound
  <2> QED
    BY <2>1 DEF Limiter
<1>2. ASSUME NEW q \in Requests \ {r}, stage'[q] = "cancel", lim'[q] = i
      PROVE  now[q] \in Int /\ now'[q] = now[q] /\ now[q] <= limiters[i].last /\ Cost(q)' = 1
  BY <1>2, Zenon DEF CallsTyped, OthersStay, BucketKept, Cost
<1>3. ASSUME NEW q \in Requests \ {r}, stage'[q] = "cancel", lim'[q] = i
      PROVE  now'[q] <= t /\ (t > limiters[i].last => now'[q] # t)
  <2>1. now[q] \in Int /\ now'[q] = now[q] /\ now[q] <= limiters[i].last
    BY <1>2, <1>3, Zenon
  <2> QED
    BY <1>1, <2>1 DEF UsedAt
<1>4. t = limiters[i].last => Held(i)' \ {r} = Held(i) \ {r}
  BY Zenon DEF Held, OthersStay, UsedAt
<1>5. t > limiters[i].last => Held(i)' \ {r} = {}
  BY <1>3, Zenon DEF Held, UsedAt
<1> QED
  BY <1>2, <1>3, <1>4, <1>5, Zenon DEF HeldOnly

\* What a use leaves to show: that the limiter used is sound, if it still is regular.
LEMMA UseKept ==
  ASSUME CallsTyped, BucketsKept, NEW r \in Requests, OthersStay(r), lim' = lim, 
         regular' \subseteq regular,
         \A i \in regular : i # lim[r] => limiters'[i] = limiters[i] /\ ideal'[i] = ideal[i],
         lim[r] \in regular' => BucketKept(lim[r])'
  PROVE  BucketsKept'
<1>1. ASSUME NEW i \in regular', i # lim[r] PROVE BucketKept(i)'
  BY <1>1, AsideKept, Zenon DEF BucketsKept
<1> QED
  BY <1>1, Zenon DEF BucketsKept

\* AllowN, for which r's turn in the bucket has come.
LEMMA TakeBuckets ==
  ASSUME CallsTyped, BucketsTyped, BucketsKept, NEW r \in Requests, Take(r)
  PROVE  BucketsTyped' /\ BucketsKept'
<1> DEFINE j == lim[r]
           l == limiters[j]
           d == ideal[j]
<1>1. /\ stage[r] = "take" /\ rules' = rules /\ now' = now /\ lru' = lru /\ lim' = lim
      /\ act' = act
  BY Zenon DEF Take
<1>2. /\ j \in DOMAIN limiters /\ l \in Limiter /\ d \in Limiter
      /\ now[r] \in Int /\ Cost(r) \in Nat /\ Cost(r) \in Int
  <2>1. /\ j \in DOMAIN limiters /\ limiters \in Seq(Limiter) /\ ideal \in Seq(Limiter)
        /\ Len(ideal) = Len(limiters)
    BY <1>1, Zenon DEF BucketsTyped
  <2>2. now[r] \in Int /\ Cost(r) \in Nat
    BY CostTyped, Zenon DEF CallsTyped
  <2> HIDE DEF j
  <2> QED
    BY <2>1, <2>2
<1>3. CASE /\ ~Allows(l, now[r], Cost(r)) /\ Goto(r, "reserve")
           /\ UNCHANGED <<limiters, ideal, regular, unit, at>>
  <2>1. DOMAIN stage = Requests
    BY Zenon DEF CallsTyped
  <2>2. OthersStay(r) /\ stage'[r] = "reserve"
    BY <1>1, <1>3, <2>1, Zenon DEF OthersStay, Goto
  <2>3. stage[r] # "cancel" /\ stage'[r] # "cancel" /\ stage'[r] # "add"
    BY <1>1, <2>2, Zenon
  <2>4. BucketsTyped'
    BY <1>1, <1>2, <1>3, <2>2, <2>3, TypedStep, Zenon DEF BucketsTyped
  <2> QED
    BY <1>1, <1>3, <2>2, <2>3, <2>4, AsideBuckets, Zenon
<1>4. CASE /\ Allows(l, now[r], Cost(r)) /\ Allowed(r)
           /\ Use(r, ReserveN(l, now[r], Cost(r)))
           /\ ideal' = [ideal EXCEPT ![j] = ReserveN(d, now[r], Cost(r))]
  <2> DEFINE k == ReserveN(l, now[r], Cost(r))
             e == ReserveN(d, now[r], Cost(r))
  <2>1. k \in Limiter /\ k.last = now[r] /\ e \in Limiter
    BY <1>2, ReserveTyped, Zenon
  <2>2. OthersStay(r) /\ DOMAIN unit' = Requests /\ stage'[r] \in {"call", "done"}
    BY <1>1, <1>4, VerdictStays, Zenon DEF Allowed
  <2>3. stage'[r] # "cancel" /\ stage'[r] # "add"
    BY <2>2, Zenon
  <2>4. act' \in [Requests -> Int]
    BY <1>1, Zenon DEF BucketsTyped
  <2>5. UseStep(r, k, e)
    BY <1>1, <1>4, <2>2, <2>3, <2>4, Zenon DEF UseStep
  <2> HIDE DEF k, e
  <2>6. /\ BucketsTyped' /\ limiters'[j] = k /\ ideal'[j] = e /\ regular' \subseteq regular
        /\ \A i \in regular : i # j => limiters'[i] = limiters[i] /\ ideal'[i] = ideal[i]
    <3>1. BucketsTyped' /\ Changed(j, k, e)
      BY <1>2, <2>1, <2>5, UseTyped, Zenon
    <3> QED
      BY <3>1, Zenon DEF Changed
  <2>7. ASSUME NEW i, i = j, i \in regular' PROVE BucketKept(i)'
    <3>1. i \in regular /\ BucketKept(i)
      BY <2>6, <2>7, Zenon DEF BucketsKept
    <3>2. now[r] >= limiters[i].last
      BY <2>5, <2>7, Zenon DEF UseStep, Use, InOrder
    <3>3. UsedAt(i, now[r])
      BY <2>1, <2>6, <2>7, <3>2, Zenon DEF UsedAt
    <3>4. HeldOnly(r, i, now[r])
      BY <1>2, <2>2, <3>1, <3>3, HeldAfter, Zenon
    <3>5. r \notin Held(i) /\ r \notin Held(i)'
      BY <1>1, <2>3, Zenon DEF Held
    <3>6. \/ now[r] = limiters[i].last /\ Held(i)' = Held(i)
          \/ now[r] > limiters[i].last /\ Held(i)' = {}
      <4>1. now[r] = limiters[i].last \/ now[r] > limiters[i].last
        <5>1. limiters[i].last \in Int
          BY <1>2, <2>7 DEF Limiter
        <5> QED
          BY <1>2, <3>2, <5>1
      <4>2. Held(i)' \ {r} = Held(i)' /\ Held(i) \ {r} = Held(i)
        BY <3>5, Zenon
      <4> QED
        BY <3>4, <4>1, <4>2, Zenon DEF HeldOnly
    <3>7. Sound(limiters[i], ideal[i], Held(i), act)
      BY <3>1, Zenon DEF BucketKept
    <3>8. Sound(k, e, Held(i)', act)
      BY <1>2, <1>4, <2>7, <3>6, <3>7, SoundTake, Zenon DEF k, e
    <3> QED
      BY <1>1, <2>3, <2>6, <2>7, <3>3, <3>4, <3>8, Zenon DEF BucketKept, UsedAt, HeldOnly
  <2> QED
    BY <1>1, <2>2, <2>6, <2>7, UseKept, Zenon
<1> QED
  BY <1>3, <1>4, Zenon DEF Take

\* ReserveN of a denial: it holds a token until it is cancelled.
LEMMA ReserveBuckets ==
  ASSUME CallsTyped, BucketsTyped, BucketsKept, NEW r \in Requests, Reserve(r)
  PROVE  BucketsTyped' /\ BucketsKept'
<1> DEFINE j == lim[r]
           l == limiters[j]
           d == ideal[j]
           k == ReserveN(l, now[r], Cost(r))
<1>1. /\ stage[r] = "reserve" /\ rules' = rules /\ now' = now /\ lru' = lru /\ lim' = lim
      /\ ideal' = ideal
  BY Zenon DEF Reserve
<1>2. /\ j \in DOMAIN limiters /\ l \in Limiter /\ d \in Limiter
      /\ now[r] \in Int /\ Cost(r) \in Nat /\ Cost(r) \in Int
  <2>1. /\ j \in DOMAIN limiters /\ limiters \in Seq(Limiter) /\ ideal \in Seq(Limiter)
        /\ Len(ideal) = Len(limiters)
    BY <1>1, Zenon DEF BucketsTyped
  <2>2. now[r] \in Int /\ Cost(r) \in Nat
    BY CostTyped, Zenon DEF CallsTyped
  <2> HIDE DEF j
  <2> QED
    BY <2>1, <2>2
<1>5. ideal' = [ideal EXCEPT ![j] = d]
  <2>1. ideal \in Seq(Limiter) /\ ideal' = ideal
    BY <1>1, Zenon DEF BucketsTyped
  <2> QED
    BY <2>1
<1>3. CASE Denied(r, InfDuration) /\ UNCHANGED <<limiters, regular, act>>
  <2>1. OthersStay(r) /\ DOMAIN unit' = Requests /\ stage'[r] \in {"call", "done"}
    BY <1>1, <1>3, VerdictStays, Zenon
  <2>2. /\ stage[r] # "cancel" /\ stage'[r] # "cancel" /\ stage'[r] # "add"
        /\ stage'[r] \notin {"take", "reserve", "cancel"}
    BY <1>1, <2>1, Zenon
  <2>3. BucketsTyped'
    BY <1>1, <1>3, <2>1, <2>2, TypedStep, Zenon DEF BucketsTyped
  <2> QED
    BY <1>1, <1>3, <2>1, <2>2, <2>3, AsideBuckets, Zenon
<1>4. CASE /\ Use(r, k) /\ act' = [act EXCEPT ![r] = k.event] /\ Goto(r, "cancel")
           /\ UNCHANGED <<unit, at>>
  <2>1. k \in Limiter /\ k.last = now[r]
    BY <1>2, ReserveTyped, Zenon
  <2>2. k.event \in Int
    BY <2>1 DEF Limiter
  <2>3. /\ DOMAIN stage = Requests /\ act \in [Requests -> Int] /\ DOMAIN unit = Requests
    BY Zenon DEF CallsTyped, BucketsTyped
  <2> HIDE DEF k
  <2>4. /\ OthersStay(r) /\ DOMAIN unit' = Requests /\ stage'[r] = "cancel"
        /\ act' \in [Requests -> Int] /\ act'[r] = k.event
    BY <1>1, <1>4, <2>2, <2>3, Zenon DEF OthersStay, Goto
  <2>5. UseStep(r, k, d)
    <3>1. stage'[r] # "add"
      BY <2>4, Zenon
    <3> QED
      BY <1>1, <1>4, <1>5, <2>4, <3>1, Zenon DEF UseStep
  <2>6. /\ BucketsTyped' /\ limiters'[j] = k /\ ideal'[j] = d /\ regular' \subseteq regular
        /\ \A i \in regular : i # j => limiters'[i] = limiters[i] /\ ideal'[i] = ideal[i]
    <3> HIDE DEF d
    <3>1. BucketsTyped' /\ Changed(j, k, d)
      BY <1>2, <2>1, <2>5, UseTyped, Zenon
    <3> QED
      BY <3>1, Zenon DEF Changed
  <2>7. ASSUME NEW i, i = j, i \in regular' PROVE BucketKept(i)'
    <3>1. i \in regular /\ BucketKept(i)
      BY <2>6, <2>7, Zenon DEF BucketsKept
    <3>2. now[r] >= limiters[i].last /\ Cost(r) = 1
      <4>1. stage[r] # "take"
        BY <1>1, Zenon
      <4> QED
        BY <2>5, <2>7, <4>1, Zenon DEF UseStep, Use, InOrder
    <3>3. UsedAt(i, now[r])
      BY <2>1, <2>6, <2>7, <3>2, Zenon DEF UsedAt
    <3>4. HeldOnly(r, i, now[r])
      BY <1>2, <2>4, <3>1, <3>3, HeldAfter, Zenon
    <3>5. r \notin Held(i) /\ r \in Held(i)'
      BY <1>1, <2>4, <2>7, <3>3, Zenon DEF Held, UsedAt
    <3>6. Sound(limiters[i], ideal[i], Held(i), act)
      BY <3>1, Zenon DEF BucketKept
    <3>7. k = ReserveN(limiters[i], now[r], 1)
      BY <2>7, <3>2, Zenon DEF k
    <3>8. Sound(k, ideal[i], Held(i)', act')
      <4>1. now[r] = limiters[i].last \/ now[r] > limiters[i].last
        <5>1. limiters[i].last \in Int
          BY <1>2, <2>7 DEF Limiter
        <5> QED
          BY <1>2, <3>2, <5>1
      <4>2. CASE now[r] = limiters[i].last
        <5>1. Held(i)' = Held(i) \cup {r}
          BY <3>4, <3>5, <4>2, Zenon DEF HeldOnly
        <5>2. \A q \in Held(i) : act'[q] = act[q]
          BY <2>4, <3>5, Zenon DEF OthersStay, Held
        <5>3. act'[r] = ReserveN(limiters[i], limiters[i].last, 1).event
          BY <2>4, <3>7, <4>2, Zenon
        <5> HIDE DEF l, d, j
        <5>4. Sound(ReserveN(limiters[i], limiters[i].last, 1), ideal[i], Held(i) \cup {r}, act')
          BY <3>5, <3>6, <5>2, <5>3, SoundReserve, Zenon
        <5> QED
          BY <3>7, <4>2, <5>1, <5>4, Zenon
      <4>3. CASE now[r] > limiters[i].last
        <5>1. Held(i)' = {r}
          BY <3>4, <3>5, <4>3, Zenon DEF HeldOnly
        <5>2. act'[r] = ReserveN(limiters[i], now[r], 1).event
          BY <2>4, <3>7, Zenon
        <5>3. Sound(ReserveN(limiters[i], now[r], 1), ideal[i], {r}, act')
          BY <1>2, <3>6, <4>3, <5>2, SoundReserveLater, Zenon
        <5> QED
          BY <3>7, <5>1, <5>3, Zenon
      <4> QED
        BY <4>1, <4>2, <4>3, Zenon
    <3>9. now'[r] <= limiters'[i].last /\ Cost(r)' = 1
      <4>1. now'[r] = limiters'[i].last
        BY <1>1, <3>3, Zenon DEF UsedAt
      <4>2. now'[r] <= now'[r]
        BY <1>1, <1>2
      <4> QED
        BY <1>4, <3>2, <4>1, <4>2, Zenon DEF Cost
    <3>10. limiters'[i] = k /\ ideal'[i] = ideal[i] /\ limiters'[i].last = now[r]
      BY <1>1, <2>6, <2>7, <3>3, Zenon DEF UsedAt
    <3>11. \A q \in Requests : stage'[q] = "cancel" /\ lim'[q] = i =>
              now'[q] <= limiters'[i].last /\ Cost(q)' = 1
      BY <3>4, <3>9, <3>10, Zenon DEF HeldOnly
    <3> QED
      BY <3>8, <3>10, <3>11, Zenon DEF BucketKept
  <2> QED
    BY <1>1, <2>4, <2>6, <2>7, UseKept, Zenon
<1> QED
  BY <1>3, <1>4, Zenon DEF Reserve

\* CancelAt of a denial that no later reading overtook.
LEMMA CancelBuckets ==
  ASSUME CallsTyped, BucketsTyped, BucketsKept, NEW r \in Requests, Cancel(r)
  PROVE  BucketsTyped' /\ BucketsKept'
<1> DEFINE j == lim[r]
           l == limiters[j]
           d == ideal[j]
           k == CancelAt(l, now[r], Cost(r), act[r])
<1>1. /\ stage[r] = "cancel" /\ rules' = rules /\ now' = now /\ lru' = lru /\ lim' = lim
      /\ ideal' = ideal /\ act' = act /\ Use(r, k) /\ Denied(r, act[r] - now[r])
  BY Zenon DEF Cancel
<1>2. /\ j \in DOMAIN limiters /\ l \in Limiter /\ d \in Limiter
      /\ now[r] \in Int /\ Cost(r) \in Int /\ act[r] \in Int
  <2>1. /\ j \in DOMAIN limiters /\ limiters \in Seq(Limiter) /\ ideal \in Seq(Limiter)
        /\ Len(ideal) = Len(limiters)
    BY <1>1, Zenon DEF BucketsTyped
  <2>2. now[r] \in Int /\ Cost(r) \in Nat /\ act[r] \in Int
    BY CostTyped, Zenon DEF CallsTyped, BucketsTyped
  <2> HIDE DEF j
  <2> QED
    BY <2>1, <2>2
<1>9. ideal' = [ideal EXCEPT ![j] = d]
  <2>1. ideal \in Seq(Limiter) /\ ideal' = ideal
    BY <1>1, Zenon DEF BucketsTyped
  <2> QED
    BY <2>1
<1>3. k \in Limiter /\ (now[r] = l.last => k.last = now[r])
  <2> HIDE DEF l
  <2>1. l \in Limiter /\ now[r] \in Int /\ Cost(r) \in Int /\ act[r] \in Int
    BY <1>2, Zenon
  <2>2. k \in Limiter
    BY <2>1, LimiterTyped, Zenon
  <2>3. ASSUME now[r] = l.last PROVE k.last = now[r]
    BY <2>1, <2>3, LimiterTyped
  <2> QED
    BY <2>2, <2>3, Zenon
<1>4. OthersStay(r) /\ DOMAIN unit' = Requests /\ stage'[r] \in {"call", "done"}
  BY <1>1, VerdictStays, Zenon
<1>5. stage'[r] # "cancel" /\ stage'[r] # "add"
  BY <1>4, Zenon
<1>6. UseStep(r, k, d)
  <2>1. act' \in [Requests -> Int]
    BY <1>1, Zenon DEF BucketsTyped
  <2> HIDE DEF k
  <2> QED
    BY <1>1, <1>4, <1>5, <1>9, <2>1, Zenon DEF UseStep
<1> HIDE DEF k
<1>7. /\ BucketsTyped' /\ limiters'[j] = k /\ ideal'[j] = d /\ regular' \subseteq regular
      /\ \A i \in regular : i # j => limiters'[i] = limiters[i] /\ ideal'[i] = ideal[i]
  <2> HIDE DEF d
  <2>1. BucketsTyped' /\ Changed(j, k, d)
    BY <1>2, <1>3, <1>6, UseTyped, Zenon
  <2> QED
    BY <2>1, Zenon DEF Changed
<1>8. ASSUME NEW i, i = j, i \in regular' PROVE BucketKept(i)'
  <2>1. i \in regular /\ BucketKept(i)
    BY <1>7, <1>8, Zenon DEF BucketsKept
  <2>2. now[r] >= limiters[i].last
    BY <1>6, <1>8, Zenon DEF UseStep, Use, InOrder
  <2>3. now[r] <= limiters[i].last /\ Cost(r) = 1
    BY <1>1, <1>8, <2>1, Zenon DEF BucketKept
  <2>4. now[r] = limiters[i].last
    <3>1. limiters[i].last \in Int
      BY <1>2, <1>8 DEF Limiter
    <3> QED
      BY <1>2, <2>2, <2>3, <3>1
  <2>5. UsedAt(i, now[r])
    BY <1>3, <1>7, <1>8, <2>2, <2>4, Zenon DEF UsedAt
  <2>6. HeldOnly(r, i, now[r])
    BY <1>2, <1>4, <2>1, <2>5, HeldAfter, Zenon
  <2>7. r \in Held(i) /\ r \notin Held(i)'
    BY <1>1, <1>5, <1>8, <2>4, Zenon DEF Held
  <2>8. Held(i)' = Held(i) \ {r}
    <3>1. Held(i)' \ {r} = Held(i)'
      BY <2>7, Zenon
    <3> QED
      BY <2>4, <2>6, <3>1, Zenon DEF HeldOnly
  <2>9. Sound(limiters[i], ideal[i], Held(i), act)
    BY <2>1, Zenon DEF BucketKept
  <2>10. k = CancelAt(limiters[i], limiters[i].last, 1, act[r])
    BY <1>8, <2>3, <2>4, Zenon DEF k
  <2>11. Sound(k, ideal[i], Held(i)', act)
    <3>1. Sound(CancelAt(limiters[i], limiters[i].last, 1, act[r]), ideal[i], Held(i) \ {r}, act)
      BY <2>7, <2>9, SoundCancel, Zenon
    <3> QED
      BY <2>8, <2>10, <3>1, Zenon
  <2>12. limiters'[i] = k /\ ideal'[i] = ideal[i] /\ limiters'[i].last = now[r]
    BY <1>1, <1>7, <1>8, <2>5, Zenon DEF UsedAt
  <2>13. \A q \in Requests : stage'[q] = "cancel" /\ lim'[q] = i =>
            now'[q] <= limiters'[i].last /\ Cost(q)' = 1
    BY <1>5, <2>6, <2>12, Zenon DEF HeldOnly
  <2> QED
    BY <1>1, <2>11, <2>12, <2>13, Zenon DEF BucketKept
<1> QED
  BY <1>1, <1>4, <1>7, <1>8, UseKept, Zenon

-----------------------------------------------------------------------------
\* No bucket is made yet.
LEMMA InitBuckets == LimitInit => BucketsTyped /\ BucketsKept
<1> SUFFICES ASSUME LimitInit PROVE BucketsTyped /\ BucketsKept
  BY Zenon
<1>1. PICK s \in Scenarios :
        /\ \A i \in DOMAIN s.config : ValidConfig(s.config[i])
        /\ rules = Build(s.config)
        /\ stage = [r \in Requests |-> IF r \in DOMAIN s.gateway THEN "idle" ELSE "absent"]
  BY Zenon DEF LimitInit
<1>2. ASSUME NEW i \in DOMAIN rules PROVE rules[i].limit \in Int
  <2> DEFINE rc == s.config[i]
  <2>1. /\ i \in DOMAIN s.config
        /\ rules[i] = [store |-> rc.algorithm,
                       limit |-> IF rc.algorithm = "memory_bucket" THEN Burst(rc) ELSE rc.limit,
                       keyBy |-> rc.keyBy, unit |-> Unit(rc)]
    BY <1>1, Zenon DEF Build
  <2>2. rc \in RuleConfig
    <3>1. s.config \in Seq(RuleConfig)
      BY RateLimitConstants, Zenon
    <3> QED
      BY <2>1, <3>1
  <2>3. rc.algorithm = "memory_bucket" => rc.per \in {"s", "m", "h"}
    <3>1. rc.algorithm = "memory_bucket" => rc.algorithm # "redis_window"
      OBVIOUS
    <3> QED
      BY <1>1, <2>1, <3>1, Zenon DEF ValidConfig, ValidBucket
  <2> HIDE DEF rc
  <2>4. rc.limit \in Int /\ rc.burst \in Int /\ rc.count \in Int
    BY <2>2 DEF RuleConfig
  <2>5. rc.algorithm = "memory_bucket" => Burst(rc) \in Int
    <3>1. ASSUME rc.per \in {"s", "m", "h"} PROVE PerSecond(rc) \in Int
      <4>1. Seconds(rc.per) \in {1, 60, 3600}
        BY <3>1 DEF Seconds
      <4> QED
        BY <2>4, <4>1 DEF PerSecond
    <3>2. ASSUME NEW n \in Int PROVE Max({1, n}) \in Int
      <4>1. 1 \in Int
        OBVIOUS
      <4> QED
        BY <4>1, MinMaxPair
    <3> QED
      BY <2>3, <2>4, <3>1, <3>2, Zenon DEF Burst
  <2>6. rules[i].limit = IF rc.algorithm = "memory_bucket" THEN Burst(rc) ELSE rc.limit
    BY <2>1
  <2> QED
    BY <2>4, <2>5, <2>6, Zenon
<1>3. /\ limiters = <<>> /\ ideal = <<>> /\ regular = {} /\ DOMAIN lru = {}
      /\ DOMAIN unit = Requests /\ DOMAIN lim = Requests /\ act \in [Requests -> Int]
  BY DEF LimitInit
<1>4. limiters \in Seq(Limiter) /\ ideal \in Seq(Limiter) /\ Len(ideal) = Len(limiters)
  BY <1>3
<1>5. \A r \in Requests : stage[r] \notin {"add", "take", "reserve", "cancel"}
  BY <1>1, Zenon
<1> QED
  BY <1>2, <1>3, <1>4, <1>5, Zenon DEF BucketsTyped, BucketsKept

\* Every step keeps the buckets.
LEMMA NextBuckets ==
  CallsTyped /\ BucketsTyped /\ BucketsKept /\ [LimitNext]_limitVars => BucketsTyped' /\ BucketsKept'
<1> SUFFICES ASSUME CallsTyped, BucketsTyped, BucketsKept, [LimitNext]_limitVars
             PROVE  BucketsTyped' /\ BucketsKept'
  BY Zenon
<1>1. ASSUME NEW r \in Requests,
             Arrive(r) \/ Send(r) \/ Script(r) \/ ScriptResent(r) \/ ScriptFails(r)
      PROVE  BucketsTyped' /\ BucketsKept'
  BY <1>1, RemoteBuckets, Zenon
<1>2. ASSUME NEW r \in Requests, Get(r) PROVE BucketsTyped' /\ BucketsKept'
  BY <1>2, GetBuckets, Zenon
<1>3. ASSUME NEW r \in Requests, Add(r) PROVE BucketsTyped' /\ BucketsKept'
  BY <1>3, AddBuckets, Zenon
<1>4. ASSUME NEW r \in Requests, Take(r) PROVE BucketsTyped' /\ BucketsKept'
  BY <1>4, TakeBuckets, Zenon
<1>5. ASSUME NEW r \in Requests, Reserve(r) PROVE BucketsTyped' /\ BucketsKept'
  BY <1>5, ReserveBuckets, Zenon
<1>6. ASSUME NEW r \in Requests, Cancel(r) PROVE BucketsTyped' /\ BucketsKept'
  BY <1>6, CancelBuckets, Zenon
<1>7. CASE LimitTick \/ AllDone \/ UNCHANGED limitVars
  <2>1. /\ rules' = rules /\ stage' = stage /\ unit' = unit /\ at' = at /\ now' = now
        /\ lru' = lru /\ limiters' = limiters /\ lim' = lim /\ act' = act /\ ideal' = ideal
        /\ regular' = regular
    BY <1>7, Zenon DEF LimitTick, AllDone, limitVars, call, local
  <2>2. BucketsTyped'
    BY <2>1, Zenon DEF BucketsTyped
  <2> QED
    BY <2>1, <2>2, StillBuckets, Zenon
<1> QED
  BY <1>1, <1>2, <1>3, <1>4, <1>5, <1>6, <1>7, Zenon DEF LimitNext

\* A sound limiter is not fuller than its ideal.
LEMMA SoundStrict ==
  ASSUME NEW l, NEW d, NEW H, NEW until, Sound(l, d, H, until)
  PROVE  l.tokens <= TokensAt(d, l.last)
<1>1. /\ l \in Limiter /\ d \in Limiter /\ IsFiniteSet(H)
      /\ l.tokens + Cardinality(H) <= TokensAt(d, l.last)
  BY Zenon DEF Sound
<1>2. l.tokens \in Int /\ l.last \in Int
  BY <1>1 DEF Limiter
<1>3. Cardinality(H) \in Nat /\ TokensAt(d, l.last) \in Int
  BY <1>1, <1>2, FS_CardinalityType, LimiterTyped, Zenon
<1> QED
  BY <1>1, <1>2, <1>3

\* Whatever way AllowN, ReserveN and CancelAt interleave (memory.go), denials of cost 1
\* on a bucket used in the order of its clock readings never put back a token they did
\* not take: for every number of requests, every burst and every clock.
THEOREM NeverLooserHolds == LimitSpec => []NeverLooser
<1> DEFINE Inv == CallsTyped /\ BucketsTyped /\ BucketsKept
<1>1. LimitInit => Inv
  BY InitCalls, InitBuckets, Zenon
<1>2. Inv /\ [LimitNext]_limitVars => Inv'
  BY NextCalls, NextBuckets, Zenon
<1>3. Inv => NeverLooser
  BY SoundStrict, Zenon DEF BucketsKept, BucketKept, NeverLooser
<1> QED
  BY <1>1, <1>2, <1>3, PTL DEF LimitSpec

-----------------------------------------------------------------------------
\* RetryHonest for one request and a bucket.
BucketHonest(r) ==
  stage[r] = "reserve" /\ stage'[r] = "cancel" /\ lim[r] \in regular /\ InOrder(r) =>
    TokensAt(ideal[lim[r]], act'[r]) >= Cost(r)

\* What ReserveN finds missing now will be there at the time to act.
LEMMA ReserveHonest ==
  ASSUME CallsTyped, BucketsTyped, BucketsKept, NEW r \in Requests, Reserve(r)
  PROVE  BucketHonest(r)
<1> DEFINE l == limiters[lim[r]]
           d == ideal[lim[r]]
           t == now[r]
           c == Cost(r)
           a == act'[r]
<1> SUFFICES ASSUME stage'[r] = "cancel", lim[r] \in regular, InOrder(r)
             PROVE  TokensAt(d, a) >= c
  BY Zenon DEF BucketHonest
<1>1. stage[r] = "reserve" /\ DOMAIN stage = Requests /\ act \in [Requests -> Int]
  BY Zenon DEF Reserve, CallsTyped, BucketsTyped
<1>2. c <= l.burst /\ act' = [act EXCEPT ![r] = ReserveN(l, t, c).event]
  <2>1. ASSUME Denied(r, InfDuration) PROVE FALSE
    <3>1. stage'[r] = "done"
      BY <1>1, <2>1, Zenon DEF Denied, Goto
    <3> QED
      BY <3>1
  <2> QED
    BY <2>1, Zenon DEF Reserve
<1>3. a = ReserveN(l, t, c).event
  BY <1>1, <1>2, Zenon
<1>4. t \in Int /\ c \in Int /\ t >= l.last
  BY CostTyped DEF InOrder, CallsTyped
<1>5. Sound(l, d, Held(lim[r]), act)
  BY Zenon DEF BucketsKept, BucketKept
<1> HIDE DEF l, d, t, c, a
<1>6. /\ l \in Limiter /\ d \in Limiter /\ d.last <= l.last /\ d.burst = l.burst
      /\ l.tokens <= TokensAt(d, l.last)
  BY <1>5, SoundStrict, Zenon DEF Sound
<1>7. /\ l.burst \in Int /\ l.tokens \in Int /\ l.last \in Int
      /\ d.burst \in Int /\ d.tokens \in Int /\ d.last \in Int
  BY <1>6 DEF Limiter
<1> DEFINE left == TokensAt(l, t) - c
<1>8. left \in Int /\ left = (IF l.burst <= l.tokens + t - l.last
                             THEN l.burst ELSE l.tokens + t - l.last) - c
  BY <1>4, <1>6, <1>7, Refilled
<1>9. a = IF left >= 0 THEN t ELSE t - left
  <2>0. TokensAt(l, t) - c = left
    BY Zenon
  <2> HIDE DEF left
  <2>1. ReserveN(l, t, c) = [burst |-> l.burst, tokens |-> left, last |-> t,
                             event |-> IF left >= 0 THEN t ELSE t - left]
    BY <1>4, <1>6, <1>8, <2>0, Reserved
  <2> QED
    BY <1>3, <2>1
<1> HIDE DEF left
<1>10. a \in Int /\ a >= t /\ a >= l.last /\ a >= d.last
  BY <1>4, <1>6, <1>7, <1>8, <1>9
<1>11. /\ TokensAt(d, a) = IF d.burst <= d.tokens + a - d.last
                           THEN d.burst ELSE d.tokens + a - d.last
       /\ TokensAt(d, l.last) = IF d.burst <= d.tokens + l.last - d.last
                                THEN d.burst ELSE d.tokens + l.last - d.last
  BY <1>6, <1>7, <1>10, Refilled
<1>12. c <= d.burst
  BY <1>2, <1>6
<1>13. d.tokens - d.last >= l.tokens - l.last
  BY <1>6, <1>7, <1>11
<1>14. d.tokens + a - d.last >= c
  BY <1>4, <1>7, <1>8, <1>9, <1>10, <1>13
<1> QED
  BY <1>4, <1>7, <1>11, <1>12, <1>14

\* Every step gives only honest delays.
LEMMA NextHonest ==
  CallsTyped /\ WindowsKept /\ QuotaKept /\ Undecided /\ BucketsTyped /\ BucketsKept
    /\ [LimitNext]_limitVars => \A r \in Requests : BucketHonest(r) /\ WindowHonest(r)
<1> SUFFICES ASSUME CallsTyped, WindowsKept, QuotaKept, Undecided, BucketsTyped, BucketsKept,
                    [LimitNext]_limitVars, NEW r \in Requests
             PROVE  BucketHonest(r) /\ WindowHonest(r)
  BY Zenon
<1>1. ASSUME stage'[r] = stage[r], verdict'[r] = verdict[r]
      PROVE  BucketHonest(r) /\ WindowHonest(r)
  <2>1. ASSUME stage[r] = "reserve", stage'[r] = "cancel" PROVE FALSE
    BY <1>1, <2>1
  <2>2. ASSUME stage[r] = "script", verdict'[r] = "denied" PROVE FALSE
    BY <1>1, <2>2, Zenon DEF Undecided
  <2> QED
    BY <2>1, <2>2, Zenon DEF BucketHonest, WindowHonest
<1>2. ASSUME NEW q \in Requests,
             \/ Arrive(q) \/ Get(q) \/ Add(q) \/ Take(q) \/ Reserve(q) \/ Cancel(q) \/ Send(q)
             \/ Script(q) \/ ScriptFails(q),
             q # r
      PROVE  BucketHonest(r) /\ WindowHonest(r)
  BY <1>1, <1>2, StepMoves, MovesUndecided, Zenon
<1>3. ASSUME (\E q \in Requests : ScriptResent(q)) \/ LimitTick \/ AllDone \/ UNCHANGED limitVars
      PROVE  BucketHonest(r) /\ WindowHonest(r)
  BY <1>1, <1>3, Zenon DEF ScriptResent, LimitTick, AllDone, limitVars
<1>4. ASSUME Arrive(r) \/ Get(r) \/ Add(r) \/ Take(r) \/ Cancel(r) \/ Send(r)
      PROVE  BucketHonest(r) /\ WindowHonest(r)
  <2>1. stage[r] # "reserve" /\ stage[r] # "script"
    BY <1>4, Zenon DEF Arrive, Get, Add, Take, Cancel, Send
  <2> QED
    BY <2>1, Zenon DEF BucketHonest, WindowHonest
<1>5. ASSUME Reserve(r) PROVE BucketHonest(r) /\ WindowHonest(r)
  <2>1. stage[r] # "script"
    BY <1>5, Zenon DEF Reserve
  <2> QED
    BY <1>5, <2>1, ReserveHonest, Zenon DEF WindowHonest
<1>6. ASSUME Script(r) \/ ScriptFails(r) PROVE BucketHonest(r) /\ WindowHonest(r)
  <2>1. stage[r] = "script"
    BY <1>6, Zenon DEF Script, ScriptFails
  <2>2. BucketHonest(r)
    <3>1. stage[r] # "reserve"
      BY <2>1
    <3> QED
      BY <3>1, Zenon DEF BucketHonest
  <2>3. ASSUME ScriptFails(r) PROVE WindowHonest(r)
    <3>1. verdict[r] # "denied" /\ DOMAIN verdict = Requests
      BY <2>1, Zenon DEF Undecided
    <3>2. verdict' = verdict \/ verdict' = [verdict EXCEPT ![r] = "allowed"]
      BY <2>3, Zenon DEF ScriptFails, FailOpen, Check
    <3>3. verdict'[r] # "denied"
      BY <3>1, <3>2, Zenon
    <3> QED
      BY <3>3, Zenon DEF WindowHonest
  <2> QED
    BY <1>6, <2>2, <2>3, ScriptHonest, Zenon
<1> QED
  BY <1>2, <1>3, <1>4, <1>5, <1>6, Zenon DEF LimitNext

\* The delay a denial is given (DelayFrom, retry_ms) is enough, whatever other denials
\* overlap with it, and for a window no longer than needed: for every number of
\* requests, rules and gateways.
THEOREM RetryHonestHolds == LimitSpec => RetryHonest
<1> DEFINE Inv == /\ CallsTyped /\ WindowsKept /\ QuotaKept /\ Undecided
                  /\ BucketsTyped /\ BucketsKept
<1>1. LimitInit => Inv
  BY InitCalls, InitWindows, InitQuota, InitUndecided, InitBuckets, Zenon
<1>2. Inv /\ [LimitNext]_limitVars => Inv'
  BY NextCalls, NextWindows, NextQuota, NextUndecided, NextBuckets, Zenon
<1>3. Inv /\ [LimitNext]_limitVars =>
        [\A r \in Requests :
           /\ stage[r] = "reserve" /\ stage'[r] = "cancel" /\ lim[r] \in regular /\ InOrder(r) =>
                TokensAt(ideal[lim[r]], act'[r]) >= Cost(r)
           /\ stage[r] = "script" /\ verdict'[r] = "denied" /\ Cost(r) = 1 =>
                LET left(t) == Live(zsets'[Key(r)].entries, t) IN
                /\ ~Denies(left(now[r] + retry'[r]), r)
                /\ Denies(left(now[r] + retry'[r] - 1), r)]_limitVars
  BY NextHonest, Zenon DEF BucketHonest, WindowHonest
<1> QED
  BY <1>1, <1>2, <1>3, PTL DEF LimitSpec, RetryHonest
=============================================================================
