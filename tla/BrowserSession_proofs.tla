------------------------ MODULE BrowserSession_proofs ------------------------
(***************************************************************************)
(* Proofs about BrowserSession, for any number of tabs, of sign-ins and of *)
(* rotations of a sign-in, and whatever a user may choose to be            *)
(* remembered.                                                             *)
(***************************************************************************)
EXTENDS BrowserSession, SequenceTheorems, TLAPS

USE NoneAssumption, CookieAssumption

-----------------------------------------------------------------------------
(* The queue of the lock. *)

Requests == Tabs \X {"refresh", "logout"}

Asked(q, x) == \E i \in DOMAIN q : q[i] = x
Once(q) == \A i, j \in DOMAIN q : q[i] = q[j] => i = j
Precedes(q, x, y) == \A i, j \in DOMAIN q : q[i] = x /\ q[j] = y => i < j
First(q, x) == q # << >> /\ q[1] = x

\* A request joins the queue behind the others.
LEMMA AppendFacts ==
  ASSUME NEW q \in Seq(Requests), NEW x \in Requests
  PROVE  /\ Append(q, x) \in Seq(Requests)
         /\ \A y : Asked(Append(q, x), y) <=> Asked(q, y) \/ y = x
         /\ Once(q) /\ ~ Asked(q, x) => Once(Append(q, x))
         /\ \A y, z : y # x /\ (Precedes(q, y, z) \/ ~ Asked(q, z))
                        => Precedes(Append(q, x), y, z)
         /\ \A y : First(q, y) => First(Append(q, x), y)
<1> DEFINE r == Append(q, x)
<1>1. /\ Len(q) \in Nat /\ DOMAIN q = 1..Len(q)
      /\ r \in Seq(Requests) /\ Len(r) = Len(q) + 1 /\ DOMAIN r = 1..(Len(q) + 1)
      /\ r[Len(q) + 1] = x
      /\ \A i \in 1..Len(q) : r[i] = q[i]
  OBVIOUS
<1>2. r # << >> /\ (q # << >> => r[1] = q[1])
  BY <1>1
<1> HIDE DEF r
<1>3. \A y : Asked(r, y) <=> Asked(q, y) \/ y = x
  BY <1>1 DEF Asked
<1>4. Once(q) /\ ~ Asked(q, x) => Once(r)
  BY <1>1 DEF Asked, Once
<1>5. \A y, z : y # x /\ (Precedes(q, y, z) \/ ~ Asked(q, z)) => Precedes(r, y, z)
  BY <1>1 DEF Precedes, Asked
<1>6. QED
  BY <1>1, <1>2, <1>3, <1>4, <1>5 DEF r, First

\* Whoever has the lock gives it back.
LEMMA TailFacts ==
  ASSUME NEW q \in Seq(Requests), q # << >>, Once(q)
  PROVE  /\ Tail(q) \in Seq(Requests)
         /\ \A y : Asked(Tail(q), y) <=> Asked(q, y) /\ y # q[1]
         /\ Once(Tail(q))
         /\ \A y, z : Precedes(q, y, z) => Precedes(Tail(q), y, z)
<1> DEFINE r == Tail(q)
<1>1. /\ Len(q) \in Nat \ {0} /\ DOMAIN q = 1..Len(q)
      /\ r \in Seq(Requests) /\ Len(r) = Len(q) - 1 /\ DOMAIN r = 1..(Len(q) - 1)
      /\ \A i \in 1..(Len(q) - 1) : r[i] = q[i + 1]
  OBVIOUS
<1> HIDE DEF r
<1>2. ASSUME NEW y PROVE Asked(r, y) <=> Asked(q, y) /\ y # q[1]
  <2>1. ASSUME NEW i \in DOMAIN r, r[i] = y PROVE Asked(q, y) /\ y # q[1]
    BY <1>1, <2>1 DEF Asked, Once
  <2>2. ASSUME NEW i \in DOMAIN q, q[i] = y, y # q[1] PROVE Asked(r, y)
    <3>1. i - 1 \in DOMAIN r /\ r[i - 1] = y
      BY <1>1, <2>2
    <3>2. QED
      BY <3>1 DEF Asked
  <2>3. QED
    BY <2>1, <2>2 DEF Asked
<1>3. Once(r)
  <2>1. ASSUME NEW i \in DOMAIN r, NEW j \in DOMAIN r, r[i] = r[j] PROVE i = j
    <3>1. i + 1 \in DOMAIN q /\ j + 1 \in DOMAIN q /\ q[i + 1] = q[j + 1]
      BY <1>1, <2>1
    <3>2. i + 1 = j + 1
      BY <3>1 DEF Once
    <3>3. QED
      BY <1>1, <3>2
  <2>2. QED
    BY <2>1 DEF Once
<1>4. ASSUME NEW y, NEW z, Precedes(q, y, z) PROVE Precedes(r, y, z)
  <2>1. ASSUME NEW i \in DOMAIN r, NEW j \in DOMAIN r, r[i] = y, r[j] = z PROVE i < j
    <3>1. i + 1 \in DOMAIN q /\ j + 1 \in DOMAIN q /\ q[i + 1] = y /\ q[j + 1] = z
      BY <1>1, <2>1
    <3>2. i + 1 < j + 1
      BY <1>4, <3>1 DEF Precedes
    <3>3. QED
      BY <1>1, <3>2
  <2>2. QED
    BY <2>1 DEF Precedes
<1>5. QED
  BY <1>1, <1>2, <1>3, <1>4 DEF r

\* A page that goes takes its requests with it.
LEMMA WithoutFacts ==
  ASSUME NEW q \in Seq(Requests), NEW x, Once(q)
  PROVE  /\ Without(q, x) \in Seq(Requests)
         /\ \A y : Asked(Without(q, x), y) <=> Asked(q, y) /\ y # x
         /\ Once(Without(q, x))
         /\ \A y, z : Precedes(q, y, z) => Precedes(Without(q, x), y, z)
         /\ \A y : First(q, y) /\ y # x => First(Without(q, x), y)
<1>1. CASE \A i \in DOMAIN q : q[i] # x
  BY <1>1 DEF Without, Asked
<1>2. CASE \E i \in DOMAIN q : q[i] = x
  <2> DEFINE at == CHOOSE i \in DOMAIN q : q[i] = x
             r == [i \in 1..(Len(q) - 1) |-> q[IF i < at THEN i ELSE i + 1]]
  <2>1. Without(q, x) = r
    BY <1>2 DEF Without
  <2>2. at \in DOMAIN q /\ q[at] = x
    BY <1>2
  <2>3. Len(q) \in Nat /\ DOMAIN q = 1..Len(q) /\ \A i \in 1..Len(q) : q[i] \in Requests
    OBVIOUS
  <2> HIDE DEF at
  <2>4. Len(q) - 1 \in Nat /\ r \in [1..(Len(q) - 1) -> Requests]
    BY <2>2, <2>3
  <2>5. r \in Seq(Requests) /\ Len(r) = Len(q) - 1 /\ DOMAIN r = 1..(Len(q) - 1)
    BY <2>4, SeqDef
  <2>6. /\ \A i \in DOMAIN r : i < at => r[i] = q[i]
        /\ \A i \in DOMAIN r : ~ (i < at) => r[i] = q[i + 1]
    BY <2>5
  <2> HIDE DEF r
  <2>7. ASSUME NEW y PROVE Asked(r, y) <=> Asked(q, y) /\ y # x
    <3>1. ASSUME NEW i \in DOMAIN r, r[i] = y PROVE Asked(q, y) /\ y # x
      <4>1. CASE i < at
        BY <2>2, <2>3, <2>5, <2>6, <3>1, <4>1 DEF Asked, Once
      <4>2. CASE ~ (i < at)
        <5>1. i + 1 \in DOMAIN q /\ q[i + 1] = y /\ i + 1 # at
          BY <2>2, <2>3, <2>5, <2>6, <3>1, <4>2
        <5>2. QED
          BY <2>2, <5>1 DEF Asked, Once
      <4>3. QED
        BY <4>1, <4>2
    <3>2. ASSUME NEW i \in DOMAIN q, q[i] = y, y # x PROVE Asked(r, y)
      <4>1. i # at
        BY <2>2, <3>2
      <4>2. CASE i < at
        <5>1. i \in DOMAIN r /\ r[i] = y
          BY <2>2, <2>3, <2>5, <2>6, <3>2, <4>2
        <5>2. QED
          BY <5>1 DEF Asked
      <4>3. CASE ~ (i < at)
        <5>1. i - 1 \in DOMAIN r /\ ~ (i - 1 < at) /\ r[i - 1] = y
          BY <2>2, <2>3, <2>5, <2>6, <3>2, <4>1, <4>3
        <5>2. QED
          BY <5>1 DEF Asked
      <4>4. QED
        BY <4>2, <4>3
    <3>3. QED
      BY <3>1, <3>2 DEF Asked
  <2>8. Once(r)
    BY <2>2, <2>3, <2>5, <2>6 DEF Once
  <2>9. \A y, z : Precedes(q, y, z) => Precedes(r, y, z)
    BY <2>2, <2>3, <2>5, <2>6 DEF Precedes
  <2>10. ASSUME NEW y, First(q, y), y # x PROVE First(r, y)
    <3>1. 1 \in DOMAIN q /\ at # 1
      BY <2>2, <2>3, <2>10 DEF First
    <3>2. 1 \in DOMAIN r /\ r[1] = y
      BY <2>2, <2>3, <2>5, <2>6, <2>10, <3>1 DEF First
    <3>3. QED
      BY <3>2 DEF First
  <2>11. QED
    BY <2>1, <2>5, <2>7, <2>8, <2>9, <2>10
<1>3. QED
  BY <1>1, <1>2

\* LockHeld, tab by tab.
LockOf(b) ==
  /\ refresh[b].phase \in {"queued", "sent", "pause"} <=> Asked(queue, <<b, "refresh">>)
  /\ out[b].phase # "none" <=> Asked(queue, <<b, "logout">>)
  /\ refresh[b].phase \in {"sent", "pause"} => First(queue, <<b, "refresh">>)
  /\ out[b].phase = "sent" => First(queue, <<b, "logout">>)

LEMMA LockHeldByTab ==
  queue \in Seq(Requests) => (LockHeld <=> Once(queue) /\ \A b \in Tabs : LockOf(b))
<1> SUFFICES ASSUME queue \in Seq(Requests)
             PROVE  LockHeld <=> Once(queue) /\ \A b \in Tabs : LockOf(b)
  OBVIOUS
<1>1. /\ Len(queue) \in Nat /\ DOMAIN queue = 1..Len(queue)
      /\ \A i \in DOMAIN queue : queue[i] \in Requests
      /\ queue = << >> <=> Len(queue) = 0
  OBVIOUS
<1>2. ASSUME LockHeld PROVE Once(queue)
  <2>1. SUFFICES ASSUME NEW i \in DOMAIN queue, NEW j \in DOMAIN queue,
                        queue[i] = queue[j]
                 PROVE  i = j
    BY DEF Once
  <2>2. PICK b \in Tabs, what \in {"refresh", "logout"} : queue[i] = <<b, what>>
    BY <1>1 DEF Requests
  <2>3. QED
    BY <1>2, <2>1, <2>2 DEF LockHeld
<1>3. ASSUME LockHeld, NEW b \in Tabs PROVE LockOf(b)
  <2> DEFINE places(what) == {i \in DOMAIN queue : queue[i] = <<b, what>>}
  <2>1. /\ refresh[b].phase \in {"queued", "sent", "pause"} <=> places("refresh") # {}
        /\ refresh[b].phase \in {"sent", "pause"} => 1 \in places("refresh")
    BY <1>3 DEF LockHeld
  <2>2. /\ out[b].phase # "none" <=> places("logout") # {}
        /\ out[b].phase = "sent" => 1 \in places("logout")
    BY <1>3 DEF LockHeld
  <2>3. QED
    BY <1>1, <2>1, <2>2 DEF LockOf, Asked, First
<1>4. ASSUME Once(queue), \A b \in Tabs : LockOf(b) PROVE LockHeld
  <2> SUFFICES ASSUME NEW b \in Tabs, NEW what \in {"refresh", "logout"}
               PROVE  LET places == {i \in DOMAIN queue : queue[i] = <<b, what>>} IN
                      /\ (IF what = "refresh"
                          THEN refresh[b].phase \in {"queued", "sent", "pause"}
                          ELSE out[b].phase # "none") <=> places # {}
                      /\ (IF what = "refresh" THEN refresh[b].phase \in {"sent", "pause"}
                          ELSE out[b].phase = "sent") => 1 \in places
                      /\ \A i, j \in places : i = j
    BY DEF LockHeld
  <2>1. LockOf(b)
    BY <1>4
  <2> DEFINE places == {i \in DOMAIN queue : queue[i] = <<b, what>>}
  <2>2. /\ Asked(queue, <<b, what>>) <=> places # {}
        /\ First(queue, <<b, what>>) => 1 \in places
        /\ \A i, j \in places : i = j
    BY <1>1, <1>4 DEF Asked, First, Once
  <2>3. CASE what = "refresh"
    BY <2>1, <2>2, <2>3 DEF LockOf
  <2>4. CASE what = "logout"
    BY <2>1, <2>2, <2>4 DEF LockOf
  <2>5. QED
    BY <2>3, <2>4
<1>5. QED
  BY <1>2, <1>3, <1>4

-----------------------------------------------------------------------------
(* The server. *)

\* What a step of the server leaves true of its sign-ins, of which it ends or
\* rotates only `those` (refresh_session, logout).
ServerMoves(those) ==
  /\ status' \in [SignIns -> {"never", "open", "ended"}]
  /\ newest' \in [SignIns -> 0..MaxRotations]
  /\ inGrace' \subseteq SignIns
  /\ \A s \in SignIns : status'[s] = "never" <=> status[s] = "never"
  /\ \A s \in SignIns : status[s] = "ended" => status'[s] = "ended"
  /\ \A s \in SignIns : status[s] = "never" => newest'[s] = newest[s]
  /\ \A s \in SignIns \ those :
       /\ status'[s] = status[s] /\ newest'[s] = newest[s]
       /\ s \in inGrace' <=> s \in inGrace

\* The sign-ins of the tokens still known by the server.
ServerOK ==
  /\ status \in [SignIns -> {"never", "open", "ended"}]
  /\ newest \in [SignIns -> 0..MaxRotations]
  /\ inGrace \subseteq SignIns

LEMMA CookieFacts ==
  /\ \A c \in Cookies : /\ c # NoCookie /\ c[1] \in SignIns /\ c[2] \in 0..MaxRotations
                        /\ c = <<c[1], c[2]>> /\ SignInOf(c) = {c[1]}
  /\ SignInOf(NoCookie) = {}
  /\ \A s \in SignIns, n \in 0..MaxRotations : <<s, n>> \in Cookies
  BY DEF Cookies, SignInOf

\* Ending sign-ins that have been opened moves the server.
LEMMA EndedFacts ==
  ASSUME ServerOK, NEW those \in SUBSET SignIns, \A s \in those : status[s] # "never",
         Ended(those)
  PROVE  ServerMoves(those) /\ \A s \in those : status'[s] = "ended"
  BY DEF Ended, ServerMoves, ServerOK

\* What a refresh may do: nothing, a new token of the same sign-in, the newest
\* one again, or the alarm.
LEMMA PresentFacts ==
  ASSUME ServerOK, NEW c \in Cookies \union {NoCookie},
         NEW given \in Cookies \union {NoCookie}, Present(c, given)
  PROVE  /\ ServerMoves(SignInOf(c))
         /\ given # NoCookie =>
              /\ c # NoCookie /\ given[1] = c[1] /\ given[2] = newest'[c[1]]
              /\ status[c[1]] = "open" /\ status' = status
         /\ \A s \in SignInOf(c) : status[s] = "open" =>
              \/ c[2] = newest[s] /\ newest'[s] = c[2] + 1 /\ s \in inGrace'
                   /\ status' = status
              \/ UNCHANGED server
              \/ /\ status'[s] = "ended" /\ c[2] < newest[s]
                 /\ ~ (c[2] + 1 = newest[s] /\ s \in inGrace)
<1>1. CASE \E s \in SignInOf(c) : status[s] = "open"
  <2>1. /\ c \in Cookies /\ c # NoCookie /\ c[1] \in SignIns /\ c[2] \in 0..MaxRotations
        /\ SignInOf(c) = {c[1]} /\ status[c[1]] = "open" /\ newest[c[1]] \in 0..MaxRotations
    BY <1>1, CookieFacts DEF ServerOK
  <2>2. Judge(c, given)
    BY <1>1 DEF Present
  <2> DEFINE s == c[1]
  <2>3. CASE /\ c[2] = newest[s] /\ c[2] < MaxRotations /\ given = <<s, c[2] + 1>>
             /\ newest' = [newest EXCEPT ![s] = c[2] + 1]
             /\ inGrace' = inGrace \union {s} /\ UNCHANGED status
    BY <2>1, <2>3 DEF ServerMoves, ServerOK
  <2>4. CASE /\ c[2] + 1 = newest[s] /\ s \in inGrace
             /\ given = <<s, newest[s]>> /\ UNCHANGED server
    BY <2>1, <2>4 DEF ServerMoves, ServerOK, server
  <2>5. CASE /\ c[2] < newest[s] /\ ~ (c[2] + 1 = newest[s] /\ s \in inGrace)
             /\ given = NoCookie /\ Ended({s})
    <3>1. ServerMoves({s}) /\ status'[s] = "ended"
      BY <2>1, <2>5, EndedFacts
    <3>2. QED
      BY <2>1, <2>5, <3>1
  <2>6. QED
    BY <2>2, <2>3, <2>4, <2>5 DEF Judge
<1>2. CASE ~ \E s \in SignInOf(c) : status[s] = "open"
  BY <1>2 DEF Present, ServerMoves, ServerOK, server
<1>3. QED
  BY <1>1, <1>2

\* The same of a request whose answer nobody hears.
LEMMA UnheardFacts ==
  ASSUME ServerOK, NEW c \in Cookies \union {NoCookie}, Unheard(c)
  PROVE  /\ ServerMoves(SignInOf(c))
         /\ \A s \in SignInOf(c) : status[s] = "open" =>
              \/ c[2] = newest[s] /\ newest'[s] = c[2] + 1 /\ s \in inGrace'
                   /\ status' = status
              \/ UNCHANGED server
              \/ /\ status'[s] = "ended" /\ c[2] < newest[s]
                 /\ ~ (c[2] + 1 = newest[s] /\ s \in inGrace)
<1>1. CASE UNCHANGED server
  BY <1>1 DEF ServerMoves, ServerOK, server
<1>2. ASSUME NEW given \in Cookies \union {NoCookie}, Present(c, given)
      PROVE  /\ ServerMoves(SignInOf(c))
             /\ \A s \in SignInOf(c) : status[s] = "open" =>
                  \/ c[2] = newest[s] /\ newest'[s] = c[2] + 1 /\ s \in inGrace'
                       /\ status' = status
                  \/ UNCHANGED server
                  \/ /\ status'[s] = "ended" /\ c[2] < newest[s]
                     /\ ~ (c[2] + 1 = newest[s] /\ s \in inGrace)
  BY <1>2, PresentFacts
<1>3. QED
  BY <1>1, <1>2 DEF Unheard

\* A logout with the cookie of a sign-in that was opened, or with none, ends it.
LEMMA EndFacts ==
  ASSUME ServerOK, NEW c \in Cookies \union {NoCookie},
         \A s \in SignInOf(c) : status[s] # "never", End(c)
  PROVE  ServerMoves(SignInOf(c)) /\ \A s \in SignInOf(c) : status'[s] = "ended"
<1>1. SignInOf(c) \in SUBSET SignIns
  BY CookieFacts
<1>2. QED
  BY <1>1, EndedFacts DEF End

\* An unchanged server has moved nothing.
LEMMA StillFacts ==
  ASSUME ServerOK, UNCHANGED server, NEW those PROVE ServerMoves(those)
  BY DEF ServerMoves, ServerOK, server

-----------------------------------------------------------------------------
(* Type correctness. *)

\* The records of a tab.
LEMMA RecordsTyped ==
  /\ Guest \in Page /\ NoRefresh \in Refresh /\ Unusable \in Refresh
  /\ NoCall \in Call /\ NoOut \in Out
  /\ [NoRefresh EXCEPT !.phase = "queued"] \in Refresh
  BY DEF Guest, Page, NoRefresh, Unusable, Refresh, NoCall, Call, NoOut, Out

\* What becomes of them when a session ends, a token changes or an answer comes.
LEMMA ReplacedTyped ==
  ASSUME TypeOK, NEW b \in Tabs
  PROVE  /\ CallEnded(b) \in Call /\ CallRenewed(b) \in Call
         /\ RefreshEnded(b) \in Refresh
         /\ Dropped(page[b]) \in Page
         /\ \A answer \in {"ok", "refused", "failed"}, given \in Cookies \union {NoCookie} :
              Arrived(b, answer, given) \in Refresh
<1>1. page[b] \in Page /\ refresh[b] \in Refresh /\ call[b] \in Call
  BY DEF TypeOK
<1>2. CallEnded(b) \in Call /\ CallRenewed(b) \in Call
  BY <1>1, RecordsTyped DEF CallEnded, CallRenewed, Call
<1>3. RefreshEnded(b) \in Refresh
  BY <1>1, RecordsTyped DEF RefreshEnded, Refresh
<1>4. Dropped(page[b]) \in Page
  BY <1>1, RecordsTyped DEF Dropped, Page
<1>5. \A answer \in {"ok", "refused", "failed"}, given \in Cookies \union {NoCookie} :
        Arrived(b, answer, given) \in Refresh
  BY <1>1, RecordsTyped DEF Arrived, Refresh, NoRefresh
<1>6. QED
  BY <1>2, <1>3, <1>4, <1>5

\* The types of what the tabs have, apart from the server's part of the state.
TabsTyped ==
  /\ cookie \in Cookies \union {NoCookie}
  /\ remembered \subseteq Tabs \union {Browser}
  /\ queue \in Seq(Requests)
  /\ page \in [Tabs -> Page]
  /\ refresh \in [Tabs -> Refresh]
  /\ call \in [Tabs -> Call]
  /\ out \in [Tabs -> Out]
  /\ mail \subseteq Tabs
  /\ abandoned \subseteq SignIns
  /\ closed \subseteq Tabs \X SignIns

LEMMA TypeParts == TypeOK <=> ServerOK /\ TabsTyped
  BY DEF TypeOK, ServerOK, TabsTyped, Requests

\* Init and every step keep every variable in its type.
LEMMA TypeInit == Init => TypeOK
<1> SUFFICES ASSUME Init PROVE TypeOK
  OBVIOUS
<1>1. ServerOK
  BY DEF Init, ServerOK
<1>2. TabsTyped
  BY RecordsTyped DEF Init, TabsTyped
<1>3. QED
  BY <1>1, <1>2, TypeParts

LEMMA TypeStep ==
  ASSUME IInv, [Next]_vars PROVE ServerOK' /\ TabsTyped'
<1> USE DEF server, browser, ghosts
<1>0. /\ TypeOK /\ ServerOK /\ TabsTyped
      /\ Once(queue) /\ \A b \in Tabs : LockOf(b)
      /\ HandedOut
  BY TypeParts, LockHeldByTab DEF IInv, TabsTyped
<1>1. ASSUME NEW s \in SignIns, EndElsewhere(s) PROVE ServerOK' /\ TabsTyped'
  <2>1. ServerMoves({s})
    BY <1>0, <1>1, EndedFacts DEF EndElsewhere
  <2>2. QED
    BY <1>0, <1>1, <2>1 DEF EndElsewhere, ServerMoves, ServerOK, TabsTyped
<1>2. ASSUME NEW s \in SignIns, Elapse(s) PROVE ServerOK' /\ TabsTyped'
  BY <1>0, <1>2 DEF Elapse, ServerOK, TabsTyped
<1>3. ASSUME NEW b \in Tabs, Step(b) PROVE ServerOK' /\ TabsTyped'
  <2> USE <1>0
  <2>0. /\ page[b] \in Page /\ refresh[b] \in Refresh /\ call[b] \in Call
        /\ out[b] \in Out
        /\ refresh[b].cookie \in Cookies \union {NoCookie}
        /\ out[b].cookie \in Cookies \union {NoCookie}
    BY DEF TabsTyped, Refresh, Out
  <2>t. queue # << >> => Tail(queue) \in Seq(Requests)
    BY DEF TabsTyped
  <2>1. CASE SendRefresh(b)
    BY <2>0, <2>1 DEF SendRefresh, ServerOK, TabsTyped, Refresh
  <2>2. CASE AnswerRefresh(b)
    <3>1. PICK given \in Cookies \union {NoCookie} :
            /\ Present(refresh[b].cookie, given)
            /\ cookie' = IF refresh[b].cookie = NoCookie THEN cookie ELSE given
            /\ \E answer \in IF given = NoCookie THEN {"refused"} ELSE {"ok", "failed"} :
                 refresh' = [refresh EXCEPT ![b] = Arrived(b, answer, given)]
      BY <2>2 DEF AnswerRefresh
    <3>2. ServerOK'
      BY <2>0, <3>1, PresentFacts DEF ServerMoves, ServerOK
    <3>3. refresh' \in [Tabs -> Refresh]
      BY <3>1, ReplacedTyped DEF TabsTyped
    <3>4. queue # << >>
      BY <2>2 DEF AnswerRefresh, LockOf, First
    <3>5. QED
      BY <2>2, <2>t, <3>1, <3>2, <3>3, <3>4 DEF AnswerRefresh, TabsTyped
  <2>3. CASE LimitRefresh(b)
    <3>1. refresh' \in [Tabs -> Refresh]
      BY <2>3, ReplacedTyped DEF LimitRefresh, TabsTyped
    <3>2. queue # << >>
      BY <2>3 DEF LimitRefresh, LockOf, First
    <3>3. SignInOf(refresh[b].cookie) \subseteq SignIns
      BY <2>0, CookieFacts
    <3>4. QED
      BY <2>3, <2>t, <3>1, <3>2, <3>3 DEF LimitRefresh, TabsTyped, ServerOK
  <2>4. CASE FailRefresh(b)
    <3>1. ServerOK'
      BY <2>0, <2>4, UnheardFacts DEF FailRefresh, ServerMoves, ServerOK
    <3>2. refresh' \in [Tabs -> Refresh]
      <4>1. /\ [refresh[b] EXCEPT !.phase = "pause"] \in Refresh
            /\ Arrived(b, "failed", NoCookie) \in Refresh
        BY <2>0, ReplacedTyped DEF Refresh
      <4>2. \E r \in Refresh : refresh' = [refresh EXCEPT ![b] = r]
        BY <2>4, <4>1 DEF FailRefresh
      <4>3. QED
        BY <4>2 DEF TabsTyped
    <3>3. queue # << >>
      BY <2>4 DEF FailRefresh, LockOf, First
    <3>4. SignInOf(refresh[b].cookie) \subseteq SignIns
      BY <2>0, CookieFacts
    <3>5. QED
      BY <2>4, <2>t, <3>1, <3>2, <3>3, <3>4 DEF FailRefresh, TabsTyped
  <2>5. CASE Settle(b)
    <3>1. refresh[b].answer = "ok" => refresh[b].cookie[1] \in SignIns
      BY <2>0, <2>5, CookieFacts DEF Settle, HandedOut
    <3>2. page' \in [Tabs -> Page]
      <4>1. refresh[b].answer = "ok" =>
              [page[b] EXCEPT !.token = refresh[b].cookie[1]] \in Page
        BY <2>0, <3>1 DEF Page
      <4>2. QED
        BY <2>5, <2>0, <4>1, ReplacedTyped DEF Settle, TabsTyped
    <3>3. call' \in [Tabs -> Call]
      <4>1. refresh[b].answer = "ok" => \A n \in {"sent", "again"} :
              [call[b] EXCEPT !.phase = n, !.token = refresh[b].cookie[1]] \in Call
        BY <2>0, <3>1 DEF Call
      <4>2. QED
        BY <2>5, <2>0, <4>1, ReplacedTyped, RecordsTyped DEF Settle, TabsTyped
    <3>4. QED
      BY <2>5, <3>2, <3>3, RecordsTyped DEF Settle, TabsTyped, ServerOK
  <2>6. CASE EndCall(b)
    <3>1. \E r \in Refresh, p \in Page, c \in Call :
            /\ page' \in {page, [page EXCEPT ![b] = p]}
            /\ refresh' \in {refresh, [refresh EXCEPT ![b] = r]}
            /\ call' \in {call, [call EXCEPT ![b] = c]}
      BY <2>6, <2>0, ReplacedTyped, RecordsTyped DEF EndCall
    <3>2. /\ page' \in [Tabs -> Page] /\ refresh' \in [Tabs -> Refresh]
          /\ call' \in [Tabs -> Call]
      BY <3>1 DEF TabsTyped
    <3>3. QED
      BY <2>6, <3>2 DEF EndCall, TabsTyped, ServerOK
  <2>7. CASE Restored(b)
    <3>1. [page[b] EXCEPT !.user = call[b].token] \in Page
      BY <2>0 DEF Page, Call
    <3>2. QED
      BY <2>7, <3>1, RecordsTyped DEF Restored, TabsTyped, ServerOK
  <2>8. CASE Unauthorised(b)
    <3>1. /\ [call[b] EXCEPT !.phase = "again", !.token = page[b].token] \in Call
          /\ [call[b] EXCEPT !.phase = "refreshing"] \in Call
      BY <2>0 DEF Page, Call
    <3>2. Append(queue, <<b, "refresh">>) \in Seq(Requests)
      BY AppendFacts DEF TabsTyped, Requests
    <3>3. call' \in [Tabs -> Call]
      BY <2>8, <3>1 DEF Unauthorised, TabsTyped
    <3>4. refresh' \in [Tabs -> Refresh] /\ queue' \in Seq(Requests)
      BY <2>8, <3>2, RecordsTyped DEF Unauthorised, JoinRefresh, TabsTyped
    <3>5. QED
      BY <2>8, <3>3, <3>4 DEF Unauthorised, TabsTyped, ServerOK
  <2>9. CASE UnauthorisedAgain(b)
    <3>1. /\ page' \in [Tabs -> Page] /\ refresh' \in [Tabs -> Refresh]
          /\ call' \in [Tabs -> Call]
      BY <2>9, ReplacedTyped, RecordsTyped DEF UnauthorisedAgain, TabsTyped
    <3>2. QED
      BY <2>9, <3>1 DEF UnauthorisedAgain, TabsTyped, ServerOK
  <2>10. CASE SendLogout(b)
    BY <2>0, <2>10 DEF SendLogout, ServerOK, TabsTyped, Out
  <2>11. CASE SignedOut(b) /\ (AnswerLogout(b) \/ FailLogout(b))
    <3>1. queue # << >>
      BY <2>11 DEF SignedOut, LockOf, First
    <3>2. /\ out' \in [Tabs -> Out] /\ page' \in [Tabs -> Page]
          /\ queue' \in Seq(Requests)
      <4>1. [page[b] EXCEPT !.signingOut = FALSE] \in Page
        BY <2>0 DEF Page
      <4>2. QED
        BY <2>11, <2>t, <3>1, <4>1, RecordsTyped DEF SignedOut, TabsTyped
    <3>3. SignInOf(out[b].cookie) \subseteq SignIns
      BY <2>0, CookieFacts
    <3>4. ServerOK'
      BY <2>11, <3>3 DEF AnswerLogout, FailLogout, End, Ended, ServerOK
    <3>5. CASE AnswerLogout(b)
      BY <3>2, <3>3, <3>4, <3>5 DEF AnswerLogout, TabsTyped
    <3>6. CASE FailLogout(b)
      BY <3>2, <3>4, <3>6 DEF FailLogout, TabsTyped
    <3>7. QED
      BY <2>11, <3>5, <3>6
  <2>12. QED
    BY <1>3, <2>1, <2>2, <2>3, <2>4, <2>5, <2>6, <2>7, <2>8, <2>9, <2>10, <2>11
    DEF Step, AnswerLogout, FailLogout
<1>4. ASSUME NEW b \in Tabs, StartCall(b) PROVE ServerOK' /\ TabsTyped'
  <2>1. [NoCall EXCEPT !.phase = "sent"] \in Call
    BY RecordsTyped DEF NoCall, Call
  <2>2. QED
    BY <1>0, <1>4, <2>1 DEF StartCall, TabsTyped, ServerOK
<1>5. ASSUME NEW b \in Tabs, NEW s \in SignIns, NEW remember \in RememberMe,
             SignIn(b, s, remember)
      PROVE  ServerOK' /\ TabsTyped'
  <2>1. [page[b] EXCEPT !.token = s, !.user = s, !.link = FALSE] \in Page
    <3>1. page[b] \in Page
      BY <1>0 DEF TabsTyped
    <3>2. QED
      BY <3>1 DEF Page
  <2>2. <<s, 0>> \in Cookies
    BY CookieFacts
  <2>3. QED
    BY <1>0, <1>5, <2>1, <2>2, ReplacedTyped DEF SignIn, TabsTyped, ServerOK
<1>6. ASSUME NEW b \in Tabs, SignOut(b) PROVE ServerOK' /\ TabsTyped'
  <2>1. /\ [Guest EXCEPT !.signingOut = TRUE] \in Page
        /\ [NoOut EXCEPT !.phase = "queued", !.left = page[b].token] \in Out
    BY <1>0 DEF TabsTyped, Guest, Page, NoOut, Out
  <2>2. Append(queue, <<b, "logout">>) \in Seq(Requests)
    BY <1>0, AppendFacts DEF TabsTyped, Requests
  <2>3. QED
    BY <1>0, <1>6, <2>1, <2>2, ReplacedTyped DEF SignOut, Close, TabsTyped, ServerOK
<1>7. ASSUME NEW b \in Tabs, Receive(b) PROVE ServerOK' /\ TabsTyped'
  <2>1. [Guest EXCEPT !.signingOut = FALSE] \in Page
    BY DEF Guest, Page
  <2>2. /\ page' \in [Tabs -> Page] /\ refresh' \in [Tabs -> Refresh]
        /\ call' \in [Tabs -> Call] /\ remembered' \subseteq remembered
    BY <1>0, <1>7, <2>1, ReplacedTyped DEF Receive, Close, TabsTyped
  <2>3. QED
    BY <1>0, <1>7, <2>2 DEF Receive, TabsTyped, ServerOK
<1>8. ASSUME NEW b \in Tabs, NEW reload \in BOOLEAN, NEW link \in BOOLEAN,
             Open(b, reload, link)
      PROVE  ServerOK' /\ TabsTyped'
  <2>1. /\ refresh[b].cookie \in Cookies \union {NoCookie}
        /\ out[b].cookie \in Cookies \union {NoCookie}
    BY <1>0 DEF TabsTyped, Refresh, Out
  <2>2. /\ SignInOf(refresh[b].cookie) \subseteq SignIns
        /\ SignInOf(out[b].cookie) \subseteq SignIns
    BY <2>1, CookieFacts
  <2>3. ServerOK'
    <3>1. Unheard(refresh[b].cookie) => ServerOK'
      BY <1>0, <2>1, UnheardFacts DEF ServerMoves, ServerOK
    <3>2. UNCHANGED server \/ End(out[b].cookie) => ServerOK'
      BY <1>0, <2>2 DEF End, Ended, ServerOK
    <3>3. QED
      BY <1>8, <3>1, <3>2 DEF Open
  <2>4. /\ [Guest EXCEPT !.link = link] \in Page
        /\ [NoCall EXCEPT !.phase = "refreshing", !.restore = TRUE] \in Call
    BY DEF Guest, Page, NoCall, Call
  <2>5. queue' \in Seq(Requests)
    <3> DEFINE others == Without(Without(queue, <<b, "refresh">>), <<b, "logout">>)
    <3>1. others \in Seq(Requests)
      BY <1>0, WithoutFacts DEF TabsTyped
    <3> HIDE DEF others
    <3>2. Append(others, <<b, "refresh">>) \in Seq(Requests)
      BY <3>1, AppendFacts DEF Requests
    <3>3. queue' \in {others, Append(others, <<b, "refresh">>)}
      BY <1>8 DEF Open, others
    <3>4. QED
      BY <3>1, <3>2, <3>3
  <2>6. QED
    BY <1>0, <1>8, <2>2, <2>3, <2>4, <2>5, RecordsTyped DEF Open, TabsTyped
<1>9. CASE UNCHANGED vars
  BY <1>0, <1>9 DEF vars, TabsTyped, ServerOK
<1>10. QED
  BY <1>1, <1>2, <1>3, <1>4, <1>5, <1>6, <1>7, <1>8, <1>9 DEF Next

-----------------------------------------------------------------------------
(* The lock. *)

\* What LockHeld and CallsWait say of a tab that nothing happens to.
LEMMA TabKept ==
  ASSUME NEW b \in Tabs, LockOf(b),
         refresh'[b].phase = refresh[b].phase, out'[b].phase = out[b].phase,
         \A what \in {"refresh", "logout"} :
           /\ Asked(queue', <<b, what>>) <=> Asked(queue, <<b, what>>)
           /\ First(queue, <<b, what>>) => First(queue', <<b, what>>)
  PROVE  LockOf(b)'
  BY DEF LockOf

\* No tab but one has what is at the head of the queue.
LEMMA HeadIsAsked ==
  ASSUME NEW q \in Seq(Requests), NEW x, First(q, x) PROVE Asked(q, x) /\ Head(q) = x
  BY DEF First, Asked

\* The lock is given back by the tab that has it.
LEMMA LockGivenBack ==
  ASSUME TabsTyped, Once(queue), \A c \in Tabs : LockOf(c),
         NEW b \in Tabs, NEW what \in {"refresh", "logout"}, First(queue, <<b, what>>),
         queue' = Tail(queue),
         \A c \in Tabs \ {b} : refresh'[c] = refresh[c] /\ out'[c] = out[c],
         what = "refresh" => refresh'[b].phase \in {"none", "arrived"} /\ out' = out,
         what = "logout" => out'[b].phase = "none" /\ refresh' = refresh
  PROVE  Once(queue)' /\ \A c \in Tabs : LockOf(c)'
<1>1. /\ queue \in Seq(Requests) /\ queue # << >> /\ queue[1] = <<b, what>>
      /\ Once(queue') /\ \A y : Asked(queue', y) <=> Asked(queue, y) /\ y # <<b, what>>
  <2>1. queue \in Seq(Requests) /\ queue # << >> /\ queue[1] = <<b, what>>
    BY DEF TabsTyped, First
  <2>2. QED
    BY <2>1, TailFacts
<1>2. ASSUME NEW c \in Tabs, c # b PROVE LockOf(c)'
  BY <1>1, <1>2 DEF LockOf, First
<1>3. LockOf(b)'
  BY <1>1 DEF LockOf, First
<1>4. QED
  BY <1>1, <1>2, <1>3

LEMMA LockStep ==
  ASSUME IInv, [Next]_vars PROVE Once(queue)' /\ (\A b \in Tabs : LockOf(b))'
<1> USE DEF server, browser, ghosts
<1> DEFINE Holds == Once(queue)' /\ (\A b \in Tabs : LockOf(b))'
<1>0. /\ TabsTyped /\ queue \in Seq(Requests)
      /\ Once(queue) /\ \A b \in Tabs : LockOf(b)
  BY TypeParts, LockHeldByTab DEF IInv, TabsTyped
<1>k. ASSUME UNCHANGED queue,
             \A b \in Tabs : /\ refresh'[b].phase = refresh[b].phase
                             /\ out'[b].phase = out[b].phase
      PROVE  Holds
  <2>1. \A b \in Tabs : LockOf(b)'
    BY <1>0, <1>k, TabKept
  <2>2. QED
    BY <1>0, <1>k, <2>1
<1>e. ASSUME NEW b \in Tabs
      PROVE  /\ RefreshEnded(b).phase = refresh[b].phase
             /\ refresh[b].phase # "none" =>
                  \A answer, given : Arrived(b, answer, given).phase = "arrived"
             /\ NoRefresh.phase = "none" /\ NoOut.phase = "none"
             /\ [NoRefresh EXCEPT !.phase = "queued"].phase = "queued"
  BY <1>0 DEF RefreshEnded, Arrived, NoRefresh, Unusable, NoOut, TabsTyped, Refresh
<1>1. ASSUME NEW s \in SignIns, EndElsewhere(s) \/ Elapse(s) PROVE Holds
  BY <1>1, <1>k DEF EndElsewhere, Elapse
<1>2. ASSUME NEW b \in Tabs, Step(b) PROVE Holds
  <2> USE <1>0, <1>e
  <2>0. /\ refresh[b] \in Refresh /\ out[b] \in Out /\ LockOf(b)
    BY DEF TabsTyped
  <2>1. CASE SendRefresh(b)
    <3>1. /\ First(queue, <<b, "refresh">>) /\ refresh'[b].phase = "sent"
          /\ queue' = queue /\ out' = out
          /\ \A c \in Tabs \ {b} : refresh'[c] = refresh[c]
      BY <2>0, <2>1 DEF SendRefresh, Turn, First, TabsTyped, Refresh
    <3>2. LockOf(b)'
      BY <2>0, <2>1, <3>1 DEF LockOf, SendRefresh, First
    <3>3. QED
      BY <3>1, <3>2, TabKept
  <2>2. CASE AnswerRefresh(b) \/ LimitRefresh(b) \/ (FailRefresh(b) /\ refresh[b].retried)
    <3>1. refresh[b].phase = "sent" /\ queue' = Tail(queue) /\ out' = out
      BY <2>2 DEF AnswerRefresh, LimitRefresh, FailRefresh
    <3>2. /\ refresh'[b].phase = "arrived"
          /\ \A c \in Tabs \ {b} : refresh'[c] = refresh[c]
      <4>1. CASE AnswerRefresh(b)
        <5>1. PICK given \in Cookies \union {NoCookie}, answer \in {"ok", "refused", "failed"} :
                refresh' = [refresh EXCEPT ![b] = Arrived(b, answer, given)]
          BY <4>1 DEF AnswerRefresh
        <5>2. QED
          BY <3>1, <5>1 DEF TabsTyped
      <4>2. CASE LimitRefresh(b) \/ (FailRefresh(b) /\ refresh[b].retried)
        <5>1. refresh' = [refresh EXCEPT ![b] = Arrived(b, "failed", NoCookie)]
          BY <4>2 DEF LimitRefresh, FailRefresh
        <5>2. QED
          BY <3>1, <5>1 DEF TabsTyped
      <4>3. QED
        BY <2>2, <4>1, <4>2
    <3>3. First(queue, <<b, "refresh">>)
      BY <2>0, <3>1 DEF LockOf
    <3>4. QED
      BY <3>1, <3>2, <3>3, LockGivenBack
  <2>3. CASE FailRefresh(b) /\ ~ refresh[b].retried
    <3>1. /\ First(queue, <<b, "refresh">>) /\ refresh'[b].phase = "pause"
          /\ refresh[b].phase = "sent" /\ queue' = queue /\ out' = out
          /\ \A c \in Tabs \ {b} : refresh'[c] = refresh[c]
      BY <2>0, <2>3 DEF FailRefresh, LockOf, TabsTyped, Refresh
    <3>2. LockOf(b)'
      BY <2>0, <3>1 DEF LockOf
    <3>3. QED
      BY <3>1, <3>2, TabKept
  <2>4. CASE Settle(b)
    <3>1. /\ refresh[b].phase = "arrived" /\ refresh'[b].phase = "none"
          /\ queue' = queue /\ out' = out
          /\ \A c \in Tabs \ {b} : refresh'[c] = refresh[c]
      BY <2>4 DEF Settle, TabsTyped
    <3>2. LockOf(b)'
      BY <2>0, <3>1 DEF LockOf
    <3>3. QED
      BY <3>1, <3>2, TabKept
  <2>5. CASE EndCall(b) \/ UnauthorisedAgain(b)
    <3>1. /\ queue' = queue /\ out' = out
          /\ \/ refresh' = refresh
             \/ refresh' = [refresh EXCEPT ![b] = RefreshEnded(b)]
      BY <2>5 DEF EndCall, UnauthorisedAgain
    <3>2. \A c \in Tabs : refresh'[c].phase = refresh[c].phase
      BY <3>1 DEF TabsTyped
    <3>3. QED
      BY <1>k, <3>1, <3>2
  <2>6. CASE Restored(b)
    BY <1>k, <2>6 DEF Restored
  <2>7. CASE Unauthorised(b)
    <3>1. CASE queue' = queue /\ refresh' = refresh
      BY <1>k, <2>7, <3>1 DEF Unauthorised
    <3>2. CASE ~ (queue' = queue /\ refresh' = refresh)
      <4>1. /\ refresh[b].phase = "none" /\ out' = out
            /\ refresh' = [refresh EXCEPT ![b] = [NoRefresh EXCEPT !.phase = "queued"]]
            /\ queue' = Append(queue, <<b, "refresh">>)
        BY <2>7, <3>2 DEF Unauthorised, JoinRefresh
      <4>2. <<b, "refresh">> \in Requests /\ ~ Asked(queue, <<b, "refresh">>)
        BY <2>0, <4>1 DEF LockOf, Requests
      <4>3. /\ Once(queue')
            /\ \A y : Asked(queue', y) <=> Asked(queue, y) \/ y = <<b, "refresh">>
            /\ \A y : First(queue, y) => First(queue', y)
        BY <4>1, <4>2, AppendFacts
      <4>4. /\ refresh'[b].phase = "queued"
            /\ \A c \in Tabs \ {b} : refresh'[c] = refresh[c]
        BY <4>1 DEF TabsTyped
      <4>5. LockOf(b)'
        BY <2>0, <4>1, <4>3, <4>4 DEF LockOf
      <4>6. QED
        BY <4>1, <4>3, <4>4, <4>5, TabKept
    <3>3. QED
      BY <3>1, <3>2
  <2>8. CASE SendLogout(b)
    <3>1. /\ First(queue, <<b, "logout">>) /\ out'[b].phase = "sent"
          /\ out[b].phase = "queued" /\ queue' = queue /\ refresh' = refresh
          /\ \A c \in Tabs \ {b} : out'[c] = out[c]
      BY <2>0, <2>8 DEF SendLogout, Turn, First, TabsTyped, Out
    <3>2. LockOf(b)'
      BY <2>0, <3>1 DEF LockOf
    <3>3. QED
      BY <3>1, <3>2, TabKept
  <2>9. CASE SignedOut(b) /\ (AnswerLogout(b) \/ FailLogout(b))
    <3>1. /\ queue' = Tail(queue) /\ refresh' = refresh /\ out'[b].phase = "none"
          /\ \A c \in Tabs \ {b} : out'[c] = out[c]
      BY <2>9 DEF SignedOut, AnswerLogout, FailLogout, TabsTyped
    <3>2. First(queue, <<b, "logout">>)
      BY <2>0, <2>9 DEF SignedOut, LockOf
    <3>3. QED
      BY <3>1, <3>2, LockGivenBack
  <2>10. QED
    BY <1>2, <2>1, <2>2, <2>3, <2>4, <2>5, <2>6, <2>7, <2>8, <2>9
    DEF Step, AnswerLogout, FailLogout
<1>3. ASSUME NEW b \in Tabs, StartCall(b) PROVE Holds
  BY <1>3, <1>k DEF StartCall
<1>4. ASSUME NEW b \in Tabs, NEW s \in SignIns, NEW remember \in RememberMe,
             SignIn(b, s, remember)
      PROVE  Holds
  BY <1>4, <1>k DEF SignIn
<1>5. ASSUME NEW b \in Tabs, SignOut(b) PROVE Holds
  <2>1. /\ out[b].phase = "none" /\ out'[b].phase = "queued"
        /\ queue' = Append(queue, <<b, "logout">>)
        /\ \A c \in Tabs \ {b} : out'[c] = out[c]
        /\ \A c \in Tabs : refresh'[c].phase = refresh[c].phase
    BY <1>0, <1>5, <1>e DEF SignOut, Close, TabsTyped, NoOut
  <2>2. <<b, "logout">> \in Requests /\ ~ Asked(queue, <<b, "logout">>)
    BY <1>0, <2>1 DEF LockOf, Requests
  <2>3. /\ Once(queue')
        /\ \A y : Asked(queue', y) <=> Asked(queue, y) \/ y = <<b, "logout">>
        /\ \A y : First(queue, y) => First(queue', y)
    BY <1>0, <2>1, <2>2, AppendFacts
  <2>4. LockOf(b)'
    BY <1>0, <2>1, <2>3 DEF LockOf
  <2>5. QED
    BY <1>0, <2>1, <2>3, <2>4, TabKept
<1>6. ASSUME NEW b \in Tabs, Receive(b) PROVE Holds
  <2>1. /\ queue' = queue /\ out' = out
        /\ \A c \in Tabs : refresh'[c].phase = refresh[c].phase
    BY <1>0, <1>6, <1>e DEF Receive, Close, TabsTyped
  <2>2. QED
    BY <1>k, <2>1
<1>7. ASSUME NEW b \in Tabs, NEW reload \in BOOLEAN, NEW link \in BOOLEAN,
             Open(b, reload, link)
      PROVE  Holds
  <2> DEFINE one == Without(queue, <<b, "refresh">>)
             others == Without(one, <<b, "logout">>)
             all == Append(others, <<b, "refresh">>)
  <2>1. /\ one \in Seq(Requests) /\ Once(one)
        /\ \A y : Asked(one, y) <=> Asked(queue, y) /\ y # <<b, "refresh">>
        /\ \A y : First(queue, y) /\ y # <<b, "refresh">> => First(one, y)
    BY <1>0, WithoutFacts
  <2> HIDE DEF one
  <2>2. /\ others \in Seq(Requests) /\ Once(others)
        /\ \A y : Asked(others, y) <=> Asked(one, y) /\ y # <<b, "logout">>
        /\ \A y : First(one, y) /\ y # <<b, "logout">> => First(others, y)
    BY <2>1, WithoutFacts
  <2> HIDE DEF others
  <2>3. <<b, "refresh">> \in Requests /\ ~ Asked(others, <<b, "refresh">>)
    BY <2>1, <2>2 DEF Requests
  <2>4. /\ Once(all) /\ \A y : Asked(all, y) <=> Asked(others, y) \/ y = <<b, "refresh">>
        /\ \A y : First(others, y) => First(all, y)
    BY <2>2, <2>3, AppendFacts
  <2> HIDE DEF all
  <2>5. /\ out'[b].phase = "none"
        /\ \A c \in Tabs \ {b} : out'[c] = out[c] /\ refresh'[c] = refresh[c]
        /\ \/ queue' = others /\ refresh'[b].phase = "none"
           \/ queue' = all /\ refresh'[b].phase = "queued"
    BY <1>0, <1>7, <1>e DEF Open, TabsTyped, one, others, all
  <2>6. Once(queue') /\ LockOf(b)'
    BY <2>1, <2>2, <2>4, <2>5 DEF LockOf
  <2>7. ASSUME NEW c \in Tabs \ {b} PROVE LockOf(c)'
    <3>1. \A what \in {"refresh", "logout"} :
            /\ Asked(queue', <<c, what>>) <=> Asked(queue, <<c, what>>)
            /\ First(queue, <<c, what>>) => First(queue', <<c, what>>)
      BY <2>1, <2>2, <2>4, <2>5, <2>7
    <3>2. QED
      BY <1>0, <2>5, <2>7, <3>1, TabKept
  <2>8. QED
    BY <2>6, <2>7
<1>8. CASE UNCHANGED vars
  BY <1>k, <1>8 DEF vars
<1>9. QED
  BY <1>1, <1>2, <1>3, <1>4, <1>5, <1>6, <1>7, <1>8 DEF Next

-----------------------------------------------------------------------------
(* What a tab does, and what it leaves alone. *)

ByTab(b) ==
  \/ Step(b)
  \/ StartCall(b)
  \/ \E s \in SignIns, remember \in RememberMe : SignIn(b, s, remember)
  \/ SignOut(b)
  \/ Receive(b)
  \/ \E reload, link \in BOOLEAN : Open(b, reload, link)

\* A new refresh of a tab stands behind its logout, if it has one.
Behind(q, b) == Precedes(q, <<b, "logout">>, <<b, "refresh">>)

\* The facts of IInv in the form the proofs use.
LEMMA Known ==
  ASSUME IInv
  PROVE  /\ TypeOK /\ ServerOK /\ TabsTyped /\ queue \in Seq(Requests)
         /\ Once(queue) /\ \A b \in Tabs : LockOf(b)
         /\ CallsWait /\ HandedOut /\ LeavesForGood /\ RestoresWithToken
         /\ ClosedIsOver /\ KeepsUp
  BY TypeParts, LockHeldByTab DEF IInv, TabsTyped

\* The other tabs keep what they have, and their order in the queue.
LEMMA OthersStay ==
  ASSUME IInv, NEW b \in Tabs, ByTab(b), NEW c \in Tabs \ {b}
  PROVE  /\ page'[c] = page[c] /\ refresh'[c] = refresh[c]
         /\ call'[c] = call[c] /\ out'[c] = out[c]
         /\ Behind(queue, c) => Behind(queue', c)
<1> USE Known
<1>1. \A q \in Seq(Requests) : Behind(q, c) => Behind(Append(q, <<b, "refresh">>), c)
  <2>1. <<b, "refresh">> \in Requests /\ <<b, "refresh">> # <<c, "logout">>
    BY DEF Requests
  <2>2. QED
    BY <2>1, AppendFacts DEF Behind
<1>2. Behind(queue, c) => Behind(Append(queue, <<b, "logout">>), c)
  <2>1. <<b, "logout">> \in Requests /\ <<b, "logout">> # <<c, "logout">>
    BY DEF Requests
  <2>2. QED
    BY <2>1, AppendFacts DEF Behind
<1>3. queue # << >> => (Behind(queue, c) => Behind(Tail(queue), c))
  BY TailFacts DEF Behind
<1>4. CASE Step(b)
  <2> USE <1>4 DEF TabsTyped, server, browser, ghosts
  <2>1. CASE SendRefresh(b) \/ Settle(b) \/ EndCall(b) \/ Restored(b)
               \/ UnauthorisedAgain(b) \/ SendLogout(b)
    BY <2>1 DEF SendRefresh, Settle, EndCall, Restored, UnauthorisedAgain, SendLogout
  <2>2. CASE Unauthorised(b)
    BY <1>1, <2>2 DEF Unauthorised, JoinRefresh
  <2>3. CASE AnswerRefresh(b)
    <3>1. queue # << >>
      BY <2>3 DEF AnswerRefresh, LockOf, First
    <3>2. PICK given \in Cookies \union {NoCookie}, answer \in {"ok", "refused", "failed"} :
            refresh' = [refresh EXCEPT ![b] = Arrived(b, answer, given)]
      BY <2>3 DEF AnswerRefresh
    <3>3. QED
      BY <1>3, <2>3, <3>1, <3>2 DEF AnswerRefresh
  <2>4. CASE LimitRefresh(b) \/ FailRefresh(b)
    <3>1. queue # << >>
      BY <2>4 DEF LimitRefresh, FailRefresh, LockOf, First
    <3>2. QED
      BY <1>3, <2>4, <3>1 DEF LimitRefresh, FailRefresh
  <2>5. CASE AnswerLogout(b) \/ FailLogout(b)
    <3>1. queue # << >>
      BY <2>5 DEF AnswerLogout, FailLogout, SignedOut, LockOf, First
    <3>2. QED
      BY <1>3, <2>5, <3>1 DEF AnswerLogout, FailLogout, SignedOut
  <2>6. QED
    BY <2>1, <2>2, <2>3, <2>4, <2>5 DEF Step
<1>5. CASE StartCall(b) \/ \E s \in SignIns, remember \in RememberMe : SignIn(b, s, remember)
  BY <1>5 DEF StartCall, SignIn, TabsTyped
<1>6. CASE SignOut(b) \/ Receive(b)
  BY <1>2, <1>6 DEF SignOut, Receive, Close, TabsTyped
<1>7. ASSUME NEW reload \in BOOLEAN, NEW link \in BOOLEAN, Open(b, reload, link)
      PROVE  /\ page'[c] = page[c] /\ refresh'[c] = refresh[c]
             /\ call'[c] = call[c] /\ out'[c] = out[c]
             /\ Behind(queue, c) => Behind(queue', c)
  <2> DEFINE one == Without(queue, <<b, "refresh">>)
             others == Without(one, <<b, "logout">>)
  <2>1. one \in Seq(Requests) /\ Once(one) /\ (Behind(queue, c) => Behind(one, c))
    BY WithoutFacts DEF Behind
  <2> HIDE DEF one
  <2>2. others \in Seq(Requests) /\ (Behind(one, c) => Behind(others, c))
    BY <2>1, WithoutFacts DEF Behind
  <2> HIDE DEF others
  <2>3. Behind(others, c) => Behind(Append(others, <<b, "refresh">>), c)
    BY <1>1, <2>2
  <2>4. queue' \in {others, Append(others, <<b, "refresh">>)}
    BY <1>7 DEF Open, one, others
  <2>5. QED
    BY <1>7, <2>1, <2>2, <2>3, <2>4 DEF Open, TabsTyped
<1>8. QED
  BY <1>4, <1>5, <1>6, <1>7 DEF ByTab

\* A step is one of the server's own, or a tab's.
LEMMA StepKinds ==
  [Next]_vars => \/ \E s \in SignIns : EndElsewhere(s) \/ Elapse(s)
                 \/ \E b \in Tabs : ByTab(b)
                 \/ UNCHANGED vars
  BY DEF Next, ByTab

\* Steps of the server leave the browser alone.
LEMMA ServerAlone ==
  ASSUME NEW s \in SignIns, EndElsewhere(s) \/ Elapse(s)
  PROVE  UNCHANGED <<cookie, queue, page, refresh, call, out, abandoned, closed>>
  BY DEF EndElsewhere, Elapse, browser, ghosts

\* How a request for a token comes back: an answer that can be used only if the
\* session has not ended since, or a pause before the second attempt.
LEMMA AnswerFacts ==
  ASSUME IInv, NEW b \in Tabs, AnswerRefresh(b) \/ LimitRefresh(b) \/ FailRefresh(b)
  PROVE  /\ refresh[b].phase = "sent" /\ First(queue, <<b, "refresh">>)
         /\ UNCHANGED <<page, call, out, closed>>
         /\ \/ /\ refresh'[b].phase = "arrived" /\ queue' = Tail(queue)
               /\ refresh[b].ended => refresh'[b].answer = "failed"
               /\ AnswerRefresh(b) \/ refresh'[b].answer = "failed"
               /\ refresh'[b].answer = "failed" => refresh'[b].cookie = NoCookie
            \/ /\ refresh'[b] = [refresh[b] EXCEPT !.phase = "pause"] /\ queue' = queue
               /\ ~ refresh[b].retried /\ FailRefresh(b)
<1> USE Known
<1>1. refresh[b].phase = "sent" /\ UNCHANGED <<page, call, out, closed>>
  BY DEF AnswerRefresh, LimitRefresh, FailRefresh, ghosts
<1>2. First(queue, <<b, "refresh">>)
  BY <1>1 DEF LockOf
<1>3. \A answer \in {"ok", "refused", "failed"}, given \in Cookies \union {NoCookie} :
        LET x == Arrived(b, answer, given) IN
        /\ x.phase = "arrived"
        /\ refresh[b].ended \/ answer = "failed" => x.answer = "failed"
        /\ x.answer = "failed" => x.cookie = NoCookie
  <2>1. SUFFICES ASSUME NEW answer \in {"ok", "refused", "failed"},
                        NEW given \in Cookies \union {NoCookie}
                 PROVE  LET x == Arrived(b, answer, given) IN
                        /\ x.phase = "arrived"
                        /\ refresh[b].ended \/ answer = "failed" => x.answer = "failed"
                        /\ x.answer = "failed" => x.cookie = NoCookie
    OBVIOUS
  <2>2. CASE refresh[b].ended \/ answer = "failed"
    BY <2>2 DEF Arrived, Unusable, NoRefresh
  <2>3. CASE ~ (refresh[b].ended \/ answer = "failed")
    BY <2>3 DEF Arrived, NoRefresh
  <2>4. QED
    BY <2>2, <2>3
<1>4. CASE AnswerRefresh(b)
  <2>1. PICK given \in Cookies \union {NoCookie}, answer \in {"ok", "refused", "failed"} :
          refresh' = [refresh EXCEPT ![b] = Arrived(b, answer, given)]
    BY <1>4 DEF AnswerRefresh
  <2>2. refresh'[b] = Arrived(b, answer, given) /\ queue' = Tail(queue)
    BY <1>4, <2>1 DEF AnswerRefresh, TabsTyped
  <2>3. QED
    BY <1>1, <1>2, <1>3, <1>4, <2>2
<1>5. CASE LimitRefresh(b) \/ (FailRefresh(b) /\ refresh[b].retried)
  <2>1. refresh'[b] = Arrived(b, "failed", NoCookie) /\ queue' = Tail(queue)
    BY <1>5 DEF LimitRefresh, FailRefresh, TabsTyped
  <2>2. QED
    BY <1>1, <1>2, <1>3, <2>1
<1>6. CASE FailRefresh(b) /\ ~ refresh[b].retried
  <2>1. refresh'[b] = [refresh[b] EXCEPT !.phase = "pause"] /\ queue' = queue
    BY <1>6 DEF FailRefresh, TabsTyped
  <2>2. QED
    BY <1>1, <1>2, <1>6, <2>1
<1>7. QED
  BY <1>4, <1>5, <1>6

-----------------------------------------------------------------------------
(* Calls. *)

\* A call that waits for a token has a refresh of its tab to wait for.
LEMMA CallsWaitStep ==
  ASSUME IInv, [Next]_vars PROVE CallsWait'
<1> USE Known
<1>1. CASE \E s \in SignIns : EndElsewhere(s) \/ Elapse(s)
  BY <1>1, ServerAlone DEF CallsWait
<1>2. ASSUME NEW b \in Tabs, ByTab(b) PROVE CallsWait'
  <2>1. SUFFICES call'[b].phase = "refreshing" => refresh'[b].phase # "none"
    BY <1>2, OthersStay DEF CallsWait
  <2>2. /\ call[b].phase = "refreshing" => refresh[b].phase # "none"
        /\ call[b] \in Call /\ refresh[b] \in Refresh
    BY DEF CallsWait, TabsTyped
  <2>3. /\ RefreshEnded(b).phase = refresh[b].phase
        /\ CallRenewed(b).phase = "refreshing" => call[b].phase = "refreshing"
        /\ CallEnded(b).phase = "refreshing" => call[b].phase = "refreshing"
        /\ NoCall.phase = "none" /\ [NoCall EXCEPT !.phase = "sent"].phase = "sent"
    BY <2>2 DEF RefreshEnded, NoRefresh, Unusable, CallRenewed, CallEnded, NoCall, Refresh, Call
  <2>4. CASE SendRefresh(b)
    BY <2>2, <2>4 DEF SendRefresh, TabsTyped, Refresh
  <2>5. CASE AnswerRefresh(b) \/ LimitRefresh(b) \/ FailRefresh(b)
    <3>1. refresh'[b].phase \in {"arrived", "pause"}
      BY <2>2, <2>5, AnswerFacts DEF Refresh
    <3>2. QED
      BY <3>1
  <2>7. CASE Settle(b)
    <3>1. call[b].phase = "refreshing" => call'[b].phase \in {"sent", "again", "none"}
      <4>1. \A n, t : [call[b] EXCEPT !.phase = n, !.token = t].phase = n
        BY <2>2 DEF Call
      <4>2. QED
        BY <2>3, <2>7, <4>1 DEF Settle, TabsTyped
    <3>2. call[b].phase # "refreshing" =>
            call'[b] \in {CallRenewed(b), CallEnded(b), call[b]}
      BY <2>7 DEF Settle, TabsTyped
    <3>3. QED
      BY <2>3, <3>1, <3>2
  <2>8. CASE EndCall(b) \/ Restored(b) \/ UnauthorisedAgain(b)
    BY <2>3, <2>8 DEF EndCall, Restored, UnauthorisedAgain, TabsTyped
  <2>9. CASE Unauthorised(b)
    <3>1. CASE call[b].renewed
      <4>1. [call[b] EXCEPT !.phase = "again", !.token = page[b].token].phase = "again"
        BY <2>2 DEF Call
      <4>2. QED
        BY <2>9, <3>1, <4>1 DEF Unauthorised, TabsTyped
    <3>2. CASE ~ call[b].renewed
      BY <2>9, <3>2 DEF Unauthorised, JoinRefresh, NoRefresh, TabsTyped
    <3>3. QED
      BY <3>1, <3>2
  <2>10. CASE SendLogout(b) \/ AnswerLogout(b) \/ FailLogout(b)
    BY <2>2, <2>10 DEF SendLogout, AnswerLogout, FailLogout
  <2>11. CASE StartCall(b)
    BY <2>3, <2>11 DEF StartCall, TabsTyped
  <2>12. CASE \E s \in SignIns, remember \in RememberMe : SignIn(b, s, remember)
    BY <2>2, <2>3, <2>12 DEF SignIn, TabsTyped
  <2>13. CASE SignOut(b) \/ Receive(b)
    BY <2>2, <2>3, <2>13 DEF SignOut, Receive, Close, TabsTyped
  <2>14. CASE \E reload, link \in BOOLEAN : Open(b, reload, link)
    BY <2>3, <2>14 DEF Open, NoRefresh, TabsTyped
  <2>15. QED
    BY <1>2, <2>4, <2>5, <2>7, <2>8, <2>9, <2>10, <2>11, <2>12, <2>13, <2>14
    DEF ByTab, Step
<1>3. CASE UNCHANGED vars
  BY <1>3 DEF vars, CallsWait
<1>4. QED
  BY <1>1, <1>2, <1>3, StepKinds

-----------------------------------------------------------------------------
(* Where the sign-ins of tokens and cookies come from. *)

Opened(c) == \A s \in SignInOf(c) : status[s] # "never"
OpenedToken(t) == t # None => status[t] # "never"

LEMMA HandedOutByTab ==
  HandedOut <=>
    /\ \A s \in SignIns : status[s] = "never" => newest[s] = 0
    /\ Opened(cookie)
    /\ \A b \in Tabs :
         /\ Opened(refresh[b].cookie) /\ Opened(out[b].cookie)
         /\ OpenedToken(page[b].token) /\ OpenedToken(out[b].left)
         /\ refresh[b].phase = "arrived" /\ refresh[b].answer = "ok"
              => refresh[b].cookie # NoCookie
  BY DEF HandedOut, Opened, OpenedToken

\* A server that moves on forgets no sign-in it has opened, so it is enough that
\* what is new in the browser was opened before the step.
LEMMA HandedOutKept ==
  ASSUME IInv, TabsTyped', NEW those, ServerMoves(those),
         Opened(cookie'),
         \A b \in Tabs :
           /\ Opened(refresh'[b].cookie) /\ Opened(out'[b].cookie)
           /\ OpenedToken(page'[b].token) /\ OpenedToken(out'[b].left)
           /\ refresh'[b].phase = "arrived" /\ refresh'[b].answer = "ok"
                => refresh'[b].cookie # NoCookie
  PROVE  HandedOut'
<1>1. \A c \in Cookies \union {NoCookie} :
        Opened(c) => \A s \in SignInOf(c) : status'[s] # "never"
  BY CookieFacts DEF Opened, ServerMoves
<1>2. \A t \in SignIns \union {None} : OpenedToken(t) => (t # None => status'[t] # "never")
  BY DEF OpenedToken, ServerMoves
<1>3. \A s \in SignIns : status'[s] = "never" => newest'[s] = 0
  BY Known DEF ServerMoves, HandedOut
<1>4. \A b \in Tabs :
        /\ cookie' \in Cookies \union {NoCookie}
        /\ refresh'[b].cookie \in Cookies \union {NoCookie}
        /\ out'[b].cookie \in Cookies \union {NoCookie}
        /\ page'[b].token \in SignIns \union {None}
        /\ out'[b].left \in SignIns \union {None}
  BY DEF TabsTyped, Refresh, Out, Page
<1>5. (\A s \in SignInOf(cookie) : status[s] # "never")'
  <2>1. cookie' \in Cookies \union {NoCookie}
    BY DEF TabsTyped
  <2>2. QED
    BY <1>1, <2>1 DEF SignInOf
<1>6. \A b \in Tabs :
        /\ \A s \in SignInOf(refresh'[b].cookie) \union SignInOf(out'[b].cookie) :
             status'[s] # "never"
        /\ \A t \in {page'[b].token, out'[b].left} \ {None} : status'[t] # "never"
  BY <1>1, <1>2, <1>4
<1>7. QED
  BY <1>3, <1>5, <1>6 DEF HandedOut, SignInOf

LEMMA HandedOutStep ==
  ASSUME IInv, [Next]_vars PROVE HandedOut'
<1> USE Known, HandedOutByTab
<1>t. TabsTyped' /\ ServerOK'
  BY TypeStep
<1> DEFINE New(b) ==
      /\ Opened(refresh'[b].cookie) /\ Opened(out'[b].cookie)
      /\ OpenedToken(page'[b].token) /\ OpenedToken(out'[b].left)
      /\ refresh'[b].phase = "arrived" /\ refresh'[b].answer = "ok"
           => refresh'[b].cookie # NoCookie
<1>n. Opened(NoCookie) /\ OpenedToken(None)
  BY CookieFacts DEF Opened, OpenedToken
<1>e. ASSUME NEW b \in Tabs
      PROVE  /\ Opened(RefreshEnded(b).cookie)
             /\ RefreshEnded(b).phase = "arrived" => RefreshEnded(b).answer = "failed"
             /\ NoRefresh.cookie = NoCookie /\ NoRefresh.phase = "none"
             /\ Guest.token = None
             /\ Dropped(page[b]).token = None
             /\ NoOut.cookie = NoCookie /\ NoOut.left = None
  <2>1. refresh[b] \in Refresh /\ page[b] \in Page
    BY DEF TabsTyped
  <2>2. QED
    BY <1>n, <2>1 DEF RefreshEnded, NoRefresh, Unusable, Guest, Dropped, NoOut, Refresh, Page
<1>s. UNCHANGED server => ServerMoves({})
  BY StillFacts
<1>1. ASSUME NEW s \in SignIns, EndElsewhere(s) \/ Elapse(s) PROVE HandedOut'
  <2>1. ServerMoves({s})
    <3>1. CASE EndElsewhere(s)
      BY <3>1, EndedFacts DEF EndElsewhere
    <3>2. CASE Elapse(s)
      BY <3>2 DEF Elapse, ServerMoves, ServerOK
    <3>3. QED
      BY <1>1, <3>1, <3>2
  <2>2. Opened(cookie') /\ \A b \in Tabs : New(b)
    BY <1>1, ServerAlone
  <2>3. QED
    BY <1>t, <2>1, <2>2, HandedOutKept
<1>2. ASSUME NEW b \in Tabs, ByTab(b) PROVE HandedOut'
  <2>o. \A c \in Tabs \ {b} : New(c)
    BY <1>2, OthersStay
  <2>k. ASSUME NEW those, ServerMoves(those), Opened(cookie'), New(b) PROVE HandedOut'
    <3>1. \A c \in Tabs : New(c)
      BY <2>k, <2>o
    <3>2. QED
      BY <1>t, <2>k, <3>1, HandedOutKept
  <2>0. refresh[b] \in Refresh /\ out[b] \in Out /\ page[b] \in Page /\ LockOf(b)
    BY DEF TabsTyped
  <2>c. /\ refresh[b].cookie \in Cookies \union {NoCookie}
        /\ out[b].cookie \in Cookies \union {NoCookie}
    BY <2>0 DEF Refresh, Out
  <2>1. CASE SendRefresh(b)
    <3>1. UNCHANGED <<server, cookie, out, page>> /\ refresh'[b].cookie = cookie
             /\ refresh'[b].phase = "sent"
      BY <2>0, <2>1 DEF SendRefresh, browser, TabsTyped, Refresh
    <3>2. QED
      BY <1>s, <2>k, <3>1
  <2>2. CASE AnswerRefresh(b)
    <3>1. PICK given \in Cookies \union {NoCookie}, answer \in {"refused", "ok", "failed"} :
            /\ given = NoCookie => answer = "refused"
            /\ Present(refresh[b].cookie, given)
            /\ cookie' = IF refresh[b].cookie = NoCookie THEN cookie ELSE given
            /\ refresh' = [refresh EXCEPT ![b] = Arrived(b, answer, given)]
      BY <2>2 DEF AnswerRefresh
    <3>2. ServerMoves(SignInOf(refresh[b].cookie)) /\ Opened(given)
      BY <1>n, <2>c, <3>1, PresentFacts, CookieFacts DEF Opened
    <3>3. /\ refresh'[b] = Arrived(b, answer, given)
          /\ Arrived(b, answer, given).cookie \in {given, NoCookie}
          /\ Arrived(b, answer, given).answer = "ok" =>
               Arrived(b, answer, given).cookie = given /\ given # NoCookie
      BY <3>1 DEF Arrived, Unusable, NoRefresh, TabsTyped
    <3>4. QED
      BY <1>n, <2>2, <2>k, <3>1, <3>2, <3>3 DEF AnswerRefresh
  <2>3. CASE LimitRefresh(b) \/ FailRefresh(b)
    <3>1. ServerMoves(SignInOf(refresh[b].cookie))
      <4>1. CASE LimitRefresh(b)
        BY <4>1, StillFacts DEF LimitRefresh
      <4>2. CASE FailRefresh(b)
        BY <2>c, <4>2, UnheardFacts DEF FailRefresh
      <4>3. QED
        BY <2>3, <4>1, <4>2
    <3>2. refresh'[b].cookie \in {refresh[b].cookie, NoCookie}
             /\ (refresh'[b].phase = "arrived" => refresh'[b].answer = "failed")
      <4>1. CASE refresh'[b] = [refresh[b] EXCEPT !.phase = "pause"]
        BY <2>0, <4>1 DEF Refresh
      <4>2. CASE refresh'[b] # [refresh[b] EXCEPT !.phase = "pause"]
        <5>1. refresh'[b] = Arrived(b, "failed", NoCookie)
          BY <2>3, <4>2 DEF LimitRefresh, FailRefresh, TabsTyped
        <5>2. QED
          BY <5>1 DEF Arrived, Unusable, NoRefresh
      <4>3. QED
        BY <4>1, <4>2
    <3>3. cookie' = cookie /\ page' = page /\ out' = out
      BY <2>3 DEF LimitRefresh, FailRefresh, browser
    <3>4. QED
      BY <1>n, <2>k, <3>1, <3>2, <3>3
  <2>4. CASE Settle(b)
    <3>1. refresh[b].answer = "ok" => OpenedToken(refresh[b].cookie[1])
      BY <2>4, <2>c, CookieFacts DEF Settle, Opened, OpenedToken
    <3>2. OpenedToken(page'[b].token)
      BY <1>n, <1>e, <2>0, <2>4, <3>1 DEF Settle, TabsTyped, Page
    <3>3. UNCHANGED <<server, cookie, out>> /\ refresh'[b] = NoRefresh
      BY <2>4 DEF Settle, browser, TabsTyped
    <3>4. QED
      BY <1>n, <1>e, <1>s, <2>k, <3>2, <3>3
  <2>5. CASE EndCall(b) \/ UnauthorisedAgain(b)
    <3>1. /\ UNCHANGED <<server, cookie, out>>
          /\ page'[b] \in {page[b], Dropped(page[b])}
          /\ refresh'[b] \in {refresh[b], RefreshEnded(b)}
      BY <2>5 DEF EndCall, UnauthorisedAgain, browser, TabsTyped
    <3>2. QED
      BY <1>n, <1>e, <1>s, <2>k, <3>1
  <2>6. CASE Restored(b) \/ StartCall(b)
    <3>1. UNCHANGED <<server, cookie, out, refresh>> /\ page'[b].token = page[b].token
      BY <2>0, <2>6 DEF Restored, StartCall, browser, TabsTyped, Page
    <3>2. QED
      BY <1>s, <2>k, <3>1
  <2>7. CASE Unauthorised(b)
    <3>1. /\ UNCHANGED <<server, cookie, out, page>>
          /\ refresh'[b] \in {refresh[b], [NoRefresh EXCEPT !.phase = "queued"]}
      BY <2>7 DEF Unauthorised, JoinRefresh, browser, TabsTyped
    <3>2. [NoRefresh EXCEPT !.phase = "queued"].cookie = NoCookie
             /\ [NoRefresh EXCEPT !.phase = "queued"].phase = "queued"
      BY DEF NoRefresh
    <3>3. QED
      BY <1>n, <1>s, <2>k, <3>1, <3>2
  <2>8. CASE SendLogout(b)
    <3>1. /\ UNCHANGED <<server, cookie, page, refresh>>
          /\ out'[b].cookie = cookie /\ out'[b].left = out[b].left
      BY <2>0, <2>8 DEF SendLogout, browser, TabsTyped, Out
    <3>2. QED
      BY <1>s, <2>k, <3>1
  <2>9. CASE AnswerLogout(b) \/ FailLogout(b)
    <3>1. ServerMoves(SignInOf(out[b].cookie))
      BY <2>c, <2>9, EndFacts, StillFacts DEF AnswerLogout, FailLogout, Opened
    <3>2. /\ refresh' = refresh /\ cookie' \in {cookie, NoCookie}
          /\ out'[b] = NoOut /\ page'[b].token = page[b].token
      BY <2>0, <2>9 DEF AnswerLogout, FailLogout, SignedOut, browser, TabsTyped, Page
    <3>3. QED
      BY <1>n, <1>e, <2>k, <3>1, <3>2
  <2>10. ASSUME NEW s \in SignIns, NEW remember \in RememberMe, SignIn(b, s, remember)
         PROVE  HandedOut'
    <3>1. /\ \A r \in SignIns : r # s => status'[r] = status[r]
          /\ status'[s] = "open" /\ newest' = newest /\ cookie' = <<s, 0>>
          /\ refresh' = refresh /\ out' = out
          /\ page'[b].token = s /\ \A c \in Tabs \ {b} : page'[c] = page[c]
      BY <2>0, <2>10 DEF SignIn, TabsTyped, ServerOK, Page
    <3>2. \A r \in SignIns : status[r] # "never" => status'[r] # "never"
      BY <3>1
    <3>3. (\A r \in SignInOf(cookie) : status[r] # "never")'
      BY <3>1, CookieFacts
    <3>4. ASSUME NEW c \in Tabs
          PROVE  /\ \A r \in SignInOf(refresh[c].cookie) \union SignInOf(out[c].cookie) :
                      status'[r] # "never"
                 /\ \A t \in {page'[c].token, out[c].left} \ {None} : status'[t] # "never"
      <4>1. /\ refresh[c].cookie \in Cookies \union {NoCookie}
            /\ out[c].cookie \in Cookies \union {NoCookie}
            /\ page[c].token \in SignIns \union {None}
            /\ out[c].left \in SignIns \union {None}
        BY DEF TabsTyped, Refresh, Out, Page
      <4>2. page'[c].token \in {s, page[c].token}
        BY <3>1
      <4>3. /\ SignInOf(refresh[c].cookie) \subseteq SignIns
            /\ SignInOf(out[c].cookie) \subseteq SignIns
        BY <4>1, CookieFacts
      <4>4. QED
        BY <3>1, <3>2, <4>1, <4>2, <4>3 DEF Opened, OpenedToken
    <3>5. \A r \in SignIns : status'[r] = "never" => newest'[r] = 0
      BY <3>1
    <3>6. QED
      BY <3>1, <3>3, <3>4, <3>5 DEF HandedOut, SignInOf
  <2>11. CASE SignOut(b)
    <3>1. /\ UNCHANGED <<server, cookie>> /\ refresh'[b] = RefreshEnded(b)
          /\ page'[b].token = None
          /\ out'[b].cookie = NoCookie /\ out'[b].left = page[b].token
      BY <2>11 DEF SignOut, Close, TabsTyped, Guest, NoOut
    <3>2. QED
      BY <1>n, <1>e, <1>s, <2>k, <3>1
  <2>12. CASE Receive(b)
    <3>1. /\ UNCHANGED <<server, cookie, out>>
          /\ refresh'[b] \in {refresh[b], RefreshEnded(b)}
          /\ page'[b].token \in {None, page[b].token}
      BY <2>12 DEF Receive, Close, TabsTyped, Guest
    <3>2. QED
      BY <1>n, <1>e, <1>s, <2>k, <3>1
  <2>13. ASSUME NEW reload \in BOOLEAN, NEW link \in BOOLEAN, Open(b, reload, link)
         PROVE  HandedOut'
    <3>1. \E those : ServerMoves(those)
      <4>1. Unheard(refresh[b].cookie) => ServerMoves(SignInOf(refresh[b].cookie))
        BY <2>c, UnheardFacts
      <4>2. UNCHANGED server \/ End(out[b].cookie) => ServerMoves(SignInOf(out[b].cookie))
        BY <2>c, EndFacts, StillFacts DEF Opened
      <4>3. QED
        BY <2>13, <4>1, <4>2 DEF Open
    <3>2. /\ cookie' = cookie /\ page'[b].token = None /\ out'[b] = NoOut
          /\ refresh'[b] \in {NoRefresh, [NoRefresh EXCEPT !.phase = "queued"]}
      BY <2>13 DEF Open, TabsTyped, Guest
    <3>3. [NoRefresh EXCEPT !.phase = "queued"].cookie = NoCookie
             /\ [NoRefresh EXCEPT !.phase = "queued"].phase = "queued"
      BY DEF NoRefresh
    <3>4. QED
      BY <1>n, <1>e, <2>k, <3>1, <3>2, <3>3
  <2>14. QED
    BY <1>2, <2>1, <2>2, <2>3, <2>4, <2>5, <2>6, <2>7, <2>8, <2>9, <2>10, <2>11, <2>12,
       <2>13 DEF ByTab, Step
<1>3. CASE UNCHANGED vars
  BY <1>3 DEF vars, server, browser, HandedOut
<1>4. QED
  BY <1>1, <1>2, <1>3, StepKinds

-----------------------------------------------------------------------------
(* A sign-out under way. *)

\* What LeavesForGood says of a tab.
LeavesOf(b) ==
  out[b].phase # "none" =>
    /\ ~ page[b].link /\ ~ call[b].restore
    /\ call[b].phase # "again" /\ ~ call[b].renewed
    /\ page[b].token # None => page[b].token # out[b].left
    /\ page[b].user = None => page[b].token = None /\ call[b].phase = "none"
    /\ \/ refresh[b].phase = "none"
       \/ refresh[b].phase = "arrived" /\ refresh[b].answer = "failed"
       \/ refresh[b].phase \in {"queued", "sent", "pause"} /\ refresh[b].ended
       \/ refresh[b].phase = "queued" /\ Behind(queue, b)

LEMMA LeavesByTab == LeavesForGood <=> \A b \in Tabs : LeavesOf(b)
  BY DEF LeavesForGood, LeavesOf, Behind, Precedes

\* What a session that ends makes of a refresh and a call.
LEMMA EndedKinds ==
  ASSUME TabsTyped, NEW b \in Tabs
  PROVE  /\ RefreshEnded(b).phase = refresh[b].phase
         /\ \/ RefreshEnded(b).phase = "none"
            \/ RefreshEnded(b).phase = "arrived" /\ RefreshEnded(b).answer = "failed"
            \/ RefreshEnded(b).phase \in {"queued", "sent", "pause"} /\ RefreshEnded(b).ended
         /\ ~ call[b].restore => CallEnded(b) = NoCall
         /\ ~ NoCall.restore /\ NoCall.phase = "none" /\ ~ NoCall.renewed
         /\ NoRefresh.phase = "none" /\ NoOut.phase = "none"
<1>1. refresh[b] \in Refresh /\ call[b] \in Call
  BY DEF TabsTyped
<1>2. /\ ~ NoCall.restore /\ NoCall.phase = "none" /\ ~ NoCall.renewed
      /\ NoRefresh.phase = "none" /\ NoOut.phase = "none"
      /\ Unusable.phase = "arrived" /\ Unusable.answer = "failed"
  BY DEF NoCall, NoRefresh, NoOut, Unusable
<1>3. ASSUME ~ call[b].restore PROVE CallEnded(b) = NoCall
  BY <1>3 DEF CallEnded
<1>4. CASE refresh[b].phase = "none"
  BY <1>2, <1>3, <1>4 DEF RefreshEnded
<1>5. CASE refresh[b].phase = "arrived"
  BY <1>2, <1>3, <1>5 DEF RefreshEnded
<1>6. CASE refresh[b].phase \in {"queued", "sent", "pause"}
  <2>1. RefreshEnded(b) = [refresh[b] EXCEPT !.ended = TRUE]
    BY <1>6 DEF RefreshEnded
  <2>2. RefreshEnded(b).phase = refresh[b].phase /\ RefreshEnded(b).ended
    BY <1>1, <2>1 DEF Refresh
  <2>3. QED
    BY <1>2, <1>3, <1>6, <2>2
<1>7. QED
  BY <1>1, <1>4, <1>5, <1>6 DEF Refresh

\* A tab that leaves has no request for a token at the head of the queue that is
\* still of use.
LEMMA LeavingIsLast ==
  ASSUME IInv, NEW b \in Tabs, out[b].phase # "none", First(queue, <<b, "refresh">>)
  PROVE  refresh[b].ended
<1> USE Known
<1>1. refresh[b].phase \in {"queued", "sent", "pause"}
  <2>1. Asked(queue, <<b, "refresh">>)
    BY HeadIsAsked
  <2>2. QED
    BY <2>1 DEF LockOf
<1>2. ~ Behind(queue, b)
  <2>1. PICK i \in DOMAIN queue : queue[i] = <<b, "logout">>
    BY DEF LockOf, Asked
  <2>2. 1 \in DOMAIN queue /\ queue[1] = <<b, "refresh">> /\ i \in Nat /\ ~ (i < 1)
    BY <2>1 DEF First
  <2>3. QED
    BY <2>1, <2>2 DEF Behind, Precedes
<1>3. LeavesOf(b)
  BY LeavesByTab
<1>4. QED
  BY <1>1, <1>2, <1>3 DEF LeavesOf

LEMMA LeavesStep ==
  ASSUME IInv, [Next]_vars PROVE LeavesForGood'
<1> USE Known
<1>0. \A b \in Tabs : LeavesOf(b)
  BY LeavesByTab
<1>p. SUFFICES ASSUME NEW b \in Tabs PROVE LeavesOf(b)'
  <2>1. LeavesForGood' <=> \A b \in Tabs : LeavesOf(b)'
    BY DEF LeavesForGood, LeavesOf, Behind, Precedes
  <2>2. QED
    BY <2>1
<1>1. CASE \E s \in SignIns : EndElsewhere(s) \/ Elapse(s)
  BY <1>0, <1>1, ServerAlone DEF LeavesOf
<1>2. ASSUME NEW c \in Tabs \ {b}, ByTab(c) PROVE LeavesOf(b)'
  BY <1>0, <1>2, OthersStay DEF LeavesOf
<1>3. CASE ByTab(b)
  <2>0. /\ refresh[b] \in Refresh /\ out[b] \in Out /\ page[b] \in Page
        /\ call[b] \in Call /\ LockOf(b) /\ LeavesOf(b)
    BY <1>0 DEF TabsTyped
  <2>1. CASE SendRefresh(b)
    <3>1. /\ First(queue, <<b, "refresh">>) /\ refresh[b].phase \in {"queued", "pause"}
          /\ UNCHANGED <<page, call, out>>
          /\ refresh'[b].phase = "sent" /\ refresh'[b].ended = refresh[b].ended
      BY <2>0, <2>1 DEF SendRefresh, Turn, First, TabsTyped, Refresh
    <3>2. QED
      BY <2>0, <3>1, LeavingIsLast DEF LeavesOf
  <2>2. CASE AnswerRefresh(b) \/ LimitRefresh(b) \/ FailRefresh(b)
    <3>1. /\ First(queue, <<b, "refresh">>) /\ UNCHANGED <<page, call, out>>
          /\ \/ /\ refresh'[b].phase = "arrived"
                /\ refresh[b].ended => refresh'[b].answer = "failed"
             \/ refresh'[b] = [refresh[b] EXCEPT !.phase = "pause"]
      BY <2>2, AnswerFacts
    <3>2. QED
      BY <2>0, <3>1, LeavingIsLast DEF LeavesOf, Refresh
  <2>3. CASE Settle(b)
    <3>1. /\ out' = out /\ refresh'[b] = NoRefresh /\ refresh[b].phase = "arrived"
          /\ refresh[b].answer = "failed" /\ ~ call[b].restore => page' = page
          /\ refresh[b].answer = "failed" => call'[b] \in {NoCall, call[b]}
      BY <2>3 DEF Settle, AsksForProfile, TabsTyped
    <3>2. QED
      BY <2>0, <3>1, EndedKinds DEF LeavesOf
  <2>4. CASE EndCall(b) \/ Restored(b) \/ UnauthorisedAgain(b)
    <3>1. /\ out' = out /\ queue' = queue /\ call'[b] = NoCall
          /\ ~ call[b].restore /\ call[b].phase # "again" =>
               page' = page /\ refresh' = refresh
      BY <2>4 DEF EndCall, Restored, UnauthorisedAgain, TabsTyped
    <3>2. QED
      BY <2>0, <3>1, EndedKinds DEF LeavesOf
  <2>5. CASE Unauthorised(b)
    <3>1. /\ out' = out /\ page' = page
          /\ ~ call[b].renewed => call'[b] = [call[b] EXCEPT !.phase = "refreshing"]
          /\ call[b].phase = "sent"
      BY <2>5 DEF Unauthorised, TabsTyped
    <3>2. CASE refresh' = refresh /\ queue' = queue
      BY <2>0, <3>1, <3>2 DEF LeavesOf, Call
    <3>3. CASE ~ (refresh' = refresh /\ queue' = queue)
      <4>1. /\ refresh[b].phase = "none" /\ queue' = Append(queue, <<b, "refresh">>)
            /\ refresh'[b] = [NoRefresh EXCEPT !.phase = "queued"]
        BY <2>5, <3>3 DEF Unauthorised, JoinRefresh, TabsTyped
      <4>2. Behind(queue', b)
        <5>1. /\ <<b, "refresh">> \in Requests /\ <<b, "logout">> # <<b, "refresh">>
              /\ ~ Asked(queue, <<b, "refresh">>)
          BY <2>0, <4>1 DEF Requests, LockOf
        <5>2. QED
          BY <4>1, <5>1, AppendFacts DEF Behind
      <4>3. refresh'[b].phase = "queued"
        BY <4>1 DEF NoRefresh
      <4>4. QED
        BY <2>0, <3>1, <4>2, <4>3 DEF LeavesOf, Call
    <3>4. QED
      BY <3>2, <3>3
  <2>6. CASE SendLogout(b)
    <3>1. /\ UNCHANGED <<page, call, refresh, queue>> /\ out[b].phase = "queued"
          /\ out'[b].left = out[b].left
      BY <2>0, <2>6 DEF SendLogout, TabsTyped, Out
    <3>2. QED
      BY <2>0, <3>1 DEF LeavesOf
  <2>7. CASE AnswerLogout(b) \/ FailLogout(b)
    BY <2>7, EndedKinds DEF AnswerLogout, FailLogout, SignedOut, LeavesOf, TabsTyped
  <2>8. CASE StartCall(b)
    <3>1. /\ UNCHANGED <<page, out, refresh, queue>> /\ page[b].token # None
          /\ call'[b] = [NoCall EXCEPT !.phase = "sent"]
      BY <2>8 DEF StartCall, TabsTyped
    <3>2. /\ call'[b].phase = "sent" /\ ~ call'[b].restore /\ ~ call'[b].renewed
      BY <3>1 DEF NoCall
    <3>3. QED
      BY <2>0, <3>1, <3>2 DEF LeavesOf
  <2>9. ASSUME NEW s \in SignIns, NEW remember \in RememberMe, SignIn(b, s, remember)
        PROVE  LeavesOf(b)'
    <3>1. /\ UNCHANGED <<out, refresh, queue>> /\ call'[b] = CallRenewed(b)
          /\ page[b].link \/ page[b].user = None
          /\ page'[b].token = s /\ page'[b].user = s /\ ~ page'[b].link
          /\ status[s] = "never"
      BY <2>0, <2>9 DEF SignIn, TabsTyped, Page
    <3>2. s # None /\ (out[b].left # None => out[b].left # s)
      BY <3>1 DEF HandedOut
    <3>3. call[b].phase # "sent" => CallRenewed(b) = call[b]
      BY DEF CallRenewed
    <3>4. QED
      BY <2>0, <3>1, <3>2, <3>3 DEF LeavesOf
  <2>10. CASE SignOut(b)
    <3>1. /\ page'[b] = [Guest EXCEPT !.signingOut = TRUE] /\ call'[b] = NoCall
          /\ refresh'[b] = RefreshEnded(b)
      BY <2>10, EndedKinds DEF SignOut, Close, TabsTyped
    <3>2. /\ ~ page'[b].link /\ page'[b].token = None
      BY <3>1 DEF Guest
    <3>3. QED
      BY <3>1, <3>2, EndedKinds DEF LeavesOf
  <2>11. CASE Receive(b)
    <3>1. CASE page[b].user = None
      BY <2>0, <2>11, <3>1 DEF Receive, LeavesOf
    <3>2. CASE page[b].user # None
      <4>1. /\ page'[b] = [Guest EXCEPT !.signingOut = FALSE] /\ call'[b] = CallEnded(b)
            /\ refresh'[b] = RefreshEnded(b) /\ out' = out
        BY <2>11, <3>2 DEF Receive, Close, TabsTyped
      <4>2. /\ ~ page'[b].link /\ page'[b].token = None
        BY <4>1 DEF Guest
      <4>3. QED
        BY <2>0, <4>1, <4>2, EndedKinds DEF LeavesOf
    <3>3. QED
      BY <3>1, <3>2
  <2>12. CASE \E reload, link \in BOOLEAN : Open(b, reload, link)
    BY <2>12, EndedKinds DEF Open, LeavesOf, TabsTyped
  <2>13. QED
    BY <1>3, <2>1, <2>2, <2>3, <2>4, <2>5, <2>6, <2>7, <2>8, <2>9, <2>10, <2>11, <2>12
    DEF ByTab, Step
<1>4. CASE UNCHANGED vars
  BY <1>0, <1>4 DEF vars, LeavesOf
<1>5. QED
  BY <1>1, <1>2, <1>3, <1>4, StepKinds

-----------------------------------------------------------------------------
(* What is being restored, and signingOut. *)

RestoresOf(b) ==
  /\ page[b].signingOut => out[b].phase # "none"
  /\ call[b].restore /\ call[b].phase \in {"sent", "again"} /\ ~ call[b].ended
       => page[b].token # None /\ call[b].token # None

\* Clearing the token of a tab leaves signingOut to the sign-out that has set it.
LEMMA DroppedFacts ==
  ASSUME TabsTyped, NEW b \in Tabs
  PROVE  /\ Dropped(page[b]).token = None
         /\ Dropped(page[b]).signingOut => page[b].signingOut
         /\ page[b].user = None \/ page[b].signingOut => Dropped(page[b]).user = page[b].user
         /\ ~ (page[b].user = None \/ page[b].signingOut) => Dropped(page[b]).user = None
<1>1. page[b] \in Page
  BY DEF TabsTyped
<1>2. CASE page[b].user = None \/ page[b].signingOut
  BY <1>1, <1>2 DEF Dropped, Page
<1>3. CASE ~ (page[b].user = None \/ page[b].signingOut)
  BY <1>3 DEF Dropped, Guest
<1>4. QED
  BY <1>2, <1>3

\* A restore told that its session has ended is of no use to anybody.
LEMMA RestoreEnded ==
  ASSUME TabsTyped, NEW b \in Tabs
  PROVE  \/ ~ CallEnded(b).restore
         \/ CallEnded(b).phase = "refreshing"
         \/ CallEnded(b).ended
<1>1. call[b] \in Call
  BY DEF TabsTyped
<1>2. CASE ~ call[b].restore
  BY <1>2 DEF CallEnded, NoCall
<1>3. CASE call[b].restore /\ call[b].phase = "refreshing"
  BY <1>3 DEF CallEnded
<1>4. CASE call[b].restore /\ call[b].phase # "refreshing"
  <2>1. CallEnded(b) =
          [call[b] EXCEPT !.ended = TRUE, !.token = None, !.phase = "again"]
    BY <1>4 DEF CallEnded
  <2>2. QED
    BY <1>1, <2>1 DEF Call
<1>5. QED
  BY <1>2, <1>3, <1>4

LEMMA RestoresStep ==
  ASSUME IInv, [Next]_vars PROVE RestoresWithToken'
<1> USE Known
<1>0. \A b \in Tabs : RestoresOf(b)
  BY DEF RestoresWithToken, RestoresOf
<1>p. SUFFICES ASSUME NEW b \in Tabs PROVE RestoresOf(b)'
  <2>1. RestoresWithToken' <=> \A b \in Tabs : RestoresOf(b)'
    BY DEF RestoresWithToken, RestoresOf
  <2>2. QED
    BY <2>1
<1>1. CASE \E s \in SignIns : EndElsewhere(s) \/ Elapse(s)
  BY <1>0, <1>1, ServerAlone DEF RestoresOf
<1>2. ASSUME NEW c \in Tabs \ {b}, ByTab(c) PROVE RestoresOf(b)'
  BY <1>0, <1>2, OthersStay DEF RestoresOf
<1>3. CASE ByTab(b)
  <2>0. /\ refresh[b] \in Refresh /\ out[b] \in Out /\ page[b] \in Page
        /\ call[b] \in Call /\ RestoresOf(b)
    BY <1>0 DEF TabsTyped
  <2>n. ~ NoCall.restore /\ ~ Guest.signingOut /\ NoOut.phase = "none"
    BY DEF NoCall, Guest, NoOut
  <2>1. CASE SendRefresh(b) \/ AnswerRefresh(b) \/ LimitRefresh(b) \/ FailRefresh(b)
    BY <2>0, <2>1 DEF SendRefresh, AnswerRefresh, LimitRefresh, FailRefresh, RestoresOf
  <2>2. CASE Settle(b)
    <3>1. CASE refresh[b].answer = "ok"
      <4>1. refresh[b].cookie[1] \in SignIns
        <5>1. refresh[b].cookie \in Cookies
          BY <2>0, <2>2, <3>1 DEF Settle, HandedOut, Refresh
        <5>2. QED
          BY <5>1, CookieFacts
      <4>2. /\ page'[b].token = refresh[b].cookie[1]
            /\ page'[b].signingOut = page[b].signingOut /\ out' = out
        BY <2>0, <2>2, <3>1 DEF Settle, TabsTyped, Page
      <4>3. CASE call[b].phase = "refreshing"
        <5>1. call'[b] = [call[b] EXCEPT !.phase = IF call[b].restore THEN "sent" ELSE "again",
                                         !.token = refresh[b].cookie[1]]
          BY <2>2, <3>1, <4>3 DEF Settle, TabsTyped
        <5>2. call'[b].token = refresh[b].cookie[1]
          BY <2>0, <5>1 DEF Call
        <5>3. QED
          BY <2>0, <4>1, <4>2, <5>2 DEF RestoresOf
      <4>4. CASE call[b].phase # "refreshing"
        <5>1. call'[b] = CallRenewed(b)
          BY <2>2, <3>1, <4>4 DEF Settle, TabsTyped
        <5>2. /\ CallRenewed(b).phase = call[b].phase /\ CallRenewed(b).restore = call[b].restore
              /\ CallRenewed(b).ended = call[b].ended /\ CallRenewed(b).token = call[b].token
          BY <2>0 DEF CallRenewed, Call
        <5>3. QED
          BY <2>0, <4>1, <4>2, <5>1, <5>2 DEF RestoresOf
      <4>5. QED
        BY <4>3, <4>4
    <3>2. CASE refresh[b].answer = "refused"
      <4>1. page'[b] = Dropped(page[b]) /\ out' = out /\ call'[b] \in {NoCall, CallEnded(b)}
        BY <2>2, <3>2 DEF Settle, TabsTyped
      <4>2. QED
        BY <2>0, <2>n, <4>1, DroppedFacts, RestoreEnded DEF RestoresOf
    <3>3. CASE refresh[b].answer \notin {"ok", "refused"}
      <4>1. /\ out' = out
            /\ \/ page'[b] = page[b] /\ call'[b] \in {NoCall, call[b]}
               \/ page'[b] = Dropped(page[b]) /\ call'[b] = NoCall
        BY <2>2, <3>3 DEF Settle, AsksForProfile, TabsTyped
      <4>2. QED
        BY <2>0, <2>n, <4>1, DroppedFacts DEF RestoresOf
    <3>4. QED
      BY <3>1, <3>2, <3>3
  <2>3. CASE EndCall(b) \/ UnauthorisedAgain(b)
    <3>1. page'[b] \in {page[b], Dropped(page[b])} /\ out' = out /\ call'[b] = NoCall
      BY <2>3 DEF EndCall, UnauthorisedAgain, TabsTyped
    <3>2. QED
      BY <2>0, <2>n, <3>1, DroppedFacts DEF RestoresOf
  <2>4. CASE Restored(b)
    <3>1. page'[b].signingOut = page[b].signingOut /\ out' = out /\ call'[b] = NoCall
      BY <2>0, <2>4 DEF Restored, TabsTyped, Page
    <3>2. QED
      BY <2>0, <2>n, <3>1 DEF RestoresOf
  <2>5. CASE Unauthorised(b)
    <3>1. page' = page /\ out' = out
      BY <2>5 DEF Unauthorised
    <3>2. CASE call[b].renewed
      <4>1. /\ call'[b] = [call[b] EXCEPT !.phase = "again", !.token = page[b].token]
            /\ call[b].phase = "sent" /\ ~ call[b].ended
        BY <2>5, <3>2 DEF Unauthorised, TabsTyped
      <4>2. call'[b].token = page[b].token /\ call'[b].restore = call[b].restore
        BY <2>0, <4>1 DEF Call
      <4>3. QED
        BY <2>0, <3>1, <4>1, <4>2 DEF RestoresOf
    <3>3. CASE ~ call[b].renewed
      <4>1. call'[b] = [call[b] EXCEPT !.phase = "refreshing"]
        BY <2>5, <3>3 DEF Unauthorised, TabsTyped
      <4>2. call'[b].phase = "refreshing"
        BY <2>0, <4>1 DEF Call
      <4>3. QED
        BY <2>0, <3>1, <4>2 DEF RestoresOf
    <3>4. QED
      BY <3>2, <3>3
  <2>6. CASE SendLogout(b)
    <3>1. page' = page /\ call' = call /\ out'[b].phase = "sent"
      BY <2>0, <2>6 DEF SendLogout, TabsTyped, Out
    <3>2. QED
      BY <2>0, <3>1 DEF RestoresOf
  <2>7. CASE AnswerLogout(b) \/ FailLogout(b)
    <3>1. call' = call /\ ~ page'[b].signingOut /\ page'[b].token = page[b].token
      BY <2>0, <2>7 DEF AnswerLogout, FailLogout, SignedOut, TabsTyped, Page
    <3>2. QED
      BY <2>0, <3>1 DEF RestoresOf
  <2>8. CASE StartCall(b)
    <3>1. page' = page /\ out' = out /\ call'[b] = [NoCall EXCEPT !.phase = "sent"]
      BY <2>8 DEF StartCall, TabsTyped
    <3>2. ~ call'[b].restore
      BY <3>1 DEF NoCall
    <3>3. QED
      BY <2>0, <3>1, <3>2 DEF RestoresOf
  <2>9. ASSUME NEW s \in SignIns, NEW remember \in RememberMe, SignIn(b, s, remember)
        PROVE  RestoresOf(b)'
    <3>1. /\ out' = out /\ call'[b] = CallRenewed(b)
          /\ page'[b].token = s /\ page'[b].signingOut = page[b].signingOut
      BY <2>0, <2>9 DEF SignIn, TabsTyped, Page
    <3>2. /\ CallRenewed(b).phase = call[b].phase /\ CallRenewed(b).restore = call[b].restore
          /\ CallRenewed(b).ended = call[b].ended /\ CallRenewed(b).token = call[b].token
      BY <2>0 DEF CallRenewed, Call
    <3>3. QED
      BY <2>0, <3>1, <3>2 DEF RestoresOf
  <2>10. CASE SignOut(b)
    <3>1. call'[b] = CallEnded(b) /\ out'[b] = [NoOut EXCEPT !.phase = "queued",
                                                          !.left = page[b].token]
      BY <2>10 DEF SignOut, Close, TabsTyped
    <3>2. out'[b].phase = "queued"
      BY <3>1 DEF NoOut
    <3>3. QED
      BY <3>1, <3>2, RestoreEnded DEF RestoresOf
  <2>11. CASE Receive(b)
    <3>1. CASE page[b].user = None
      BY <2>0, <2>11, <3>1 DEF Receive, RestoresOf
    <3>2. CASE page[b].user # None
      <4>1. page'[b] = [Guest EXCEPT !.signingOut = FALSE] /\ call'[b] = CallEnded(b)
        BY <2>11, <3>2 DEF Receive, Close, TabsTyped
      <4>2. ~ page'[b].signingOut
        BY <4>1 DEF Guest
      <4>3. QED
        BY <4>1, <4>2, RestoreEnded DEF RestoresOf
    <3>3. QED
      BY <3>1, <3>2
  <2>12. ASSUME NEW reload \in BOOLEAN, NEW link \in BOOLEAN, Open(b, reload, link)
         PROVE  RestoresOf(b)'
    <3>1. /\ page'[b] = [Guest EXCEPT !.link = link]
          /\ call'[b] \in {[NoCall EXCEPT !.phase = "refreshing", !.restore = TRUE], NoCall}
      BY <2>12 DEF Open, TabsTyped
    <3>2. ~ [Guest EXCEPT !.link = link].signingOut
      BY DEF Guest
    <3>3. /\ NoCall.phase = "none"
          /\ [NoCall EXCEPT !.phase = "refreshing", !.restore = TRUE].phase = "refreshing"
      BY DEF NoCall
    <3>4. QED
      BY <3>1, <3>2, <3>3 DEF RestoresOf
  <2>13. QED
    BY <1>3, <2>1, <2>2, <2>3, <2>4, <2>5, <2>6, <2>7, <2>8, <2>9, <2>10, <2>11, <2>12
    DEF ByTab, Step
<1>4. CASE UNCHANGED vars
  BY <1>0, <1>4 DEF vars, RestoresOf
<1>5. QED
  BY <1>1, <1>2, <1>3, <1>4, StepKinds

-----------------------------------------------------------------------------
(* What a step does to the server, to the cookie and to a token. *)

\* The request of a page that goes may still reach the server.
LEMMA OpenedServer ==
  ASSUME IInv, NEW b \in Tabs, NEW reload \in BOOLEAN, NEW link \in BOOLEAN,
         Open(b, reload, link)
  PROVE  \/ refresh[b].phase = "sent" /\ Unheard(refresh[b].cookie)
         \/ /\ refresh[b].phase # "sent"
            /\ UNCHANGED server \/ (out[b].phase = "sent" /\ End(out[b].cookie))
<1> USE Known
<1>1. ~ (refresh[b].phase = "sent" /\ out[b].phase = "sent")
  <2>1. LockOf(b) /\ <<b, "refresh">> # <<b, "logout">>
    OBVIOUS
  <2>2. QED
    BY <2>1 DEF LockOf, First
<1>2. CASE refresh[b].phase = "sent"
  BY <1>1, <1>2 DEF Open
<1>3. CASE refresh[b].phase # "sent" /\ out[b].phase = "sent"
  BY <1>3 DEF Open
<1>4. CASE refresh[b].phase # "sent" /\ out[b].phase # "sent"
  BY <1>4 DEF Open
<1>5. QED
  BY <1>2, <1>3, <1>4

\* What a step may end: one sign-in at most.
AtMostOne(those) == those \subseteq SignIns /\ \A r, s \in those : r = s

\* The server moves only for a refresh, a logout or a sign-in, of one sign-in.
LEMMA ServerSteps ==
  ASSUME IInv, [Next]_vars
  PROVE  \/ \E those : AtMostOne(those) /\ ServerMoves(those)
         \/ \E b \in Tabs, s \in SignIns, remember \in RememberMe : SignIn(b, s, remember)
<1> USE Known
<1> DEFINE MovesOne == \E those : AtMostOne(those) /\ ServerMoves(those)
<1>o. /\ AtMostOne({}) /\ \A s \in SignIns : AtMostOne({s})
      /\ \A c \in Cookies \union {NoCookie} : AtMostOne(SignInOf(c))
  BY DEF AtMostOne, SignInOf, Cookies
<1>s. UNCHANGED server => MovesOne
  BY <1>o, StillFacts
<1>1. ASSUME NEW s \in SignIns, EndElsewhere(s) \/ Elapse(s) PROVE ServerMoves({s})
  <2>1. CASE EndElsewhere(s)
    BY <2>1, EndedFacts DEF EndElsewhere
  <2>2. CASE Elapse(s)
    BY <2>2 DEF Elapse, ServerMoves, ServerOK
  <2>3. QED
    BY <1>1, <2>1, <2>2
<1>2. ASSUME NEW b \in Tabs, ByTab(b)
      PROVE  \/ MovesOne
             \/ \E s \in SignIns, remember \in RememberMe : SignIn(b, s, remember)
  <2>0. /\ refresh[b].cookie \in Cookies \union {NoCookie}
        /\ out[b].cookie \in Cookies \union {NoCookie}
        /\ \A s \in SignInOf(out[b].cookie) : status[s] # "never"
    BY DEF TabsTyped, Refresh, Out, HandedOut
  <2>1. Unheard(refresh[b].cookie) => MovesOne
    BY <1>o, <2>0, UnheardFacts
  <2>2. End(out[b].cookie) => MovesOne
    BY <1>o, <2>0, EndFacts
  <2>3. CASE AnswerRefresh(b) \/ FailRefresh(b)
    BY <2>1, <2>3 DEF AnswerRefresh, FailRefresh, Unheard
  <2>4. CASE AnswerLogout(b) \/ FailLogout(b)
    BY <1>s, <2>2, <2>4 DEF AnswerLogout, FailLogout
  <2>5. ASSUME NEW reload \in BOOLEAN, NEW link \in BOOLEAN, Open(b, reload, link)
        PROVE  MovesOne
    BY <1>s, <2>1, <2>2, <2>5, OpenedServer
  <2>6. CASE SendRefresh(b) \/ LimitRefresh(b) \/ Settle(b) \/ EndCall(b) \/ Restored(b)
             \/ Unauthorised(b) \/ UnauthorisedAgain(b) \/ SendLogout(b) \/ StartCall(b)
             \/ SignOut(b) \/ Receive(b)
    BY <1>s, <2>6 DEF SendRefresh, LimitRefresh, Settle, EndCall, Restored, Unauthorised,
       UnauthorisedAgain, SendLogout, StartCall, SignOut, Receive
  <2>7. QED
    BY <1>2, <2>3, <2>4, <2>5, <2>6 DEF ByTab, Step
<1>3. CASE UNCHANGED vars
  BY <1>s, <1>3 DEF vars
<1>4. QED
  BY <1>o, <1>1, <1>2, <1>3, StepKinds

\* A sign-in that has ended never comes back.
LEMMA EndedStays ==
  ASSUME IInv, [Next]_vars, NEW s \in SignIns, status[s] = "ended"
  PROVE  status'[s] = "ended"
<1>1. ASSUME NEW b \in Tabs, NEW r \in SignIns, NEW remember \in RememberMe,
             SignIn(b, r, remember)
      PROVE  status'[s] = "ended"
  BY <1>1, Known DEF SignIn, ServerOK
<1>2. QED
  BY <1>1, ServerSteps DEF ServerMoves

\* A refresh that has brought a token has just brought it, of an open sign-in,
\* or had it before.
LEMMA BroughtFacts ==
  ASSUME IInv, NEW b \in Tabs, ByTab(b),
         refresh'[b].phase = "arrived", refresh'[b].answer = "ok"
  PROVE  \/ refresh'[b] = refresh[b]
         \/ \A s \in SignInOf(refresh'[b].cookie) : status[s] = "open"
<1> USE Known
<1>0. refresh[b] \in Refresh
  BY DEF TabsTyped
<1>1. CASE AnswerRefresh(b)
  <2>1. PICK given \in Cookies \union {NoCookie}, answer \in {"refused", "ok", "failed"} :
          /\ Present(refresh[b].cookie, given)
          /\ refresh' = [refresh EXCEPT ![b] = Arrived(b, answer, given)]
    BY <1>1 DEF AnswerRefresh
  <2>2. refresh'[b] = Arrived(b, answer, given)
    BY <2>1 DEF TabsTyped
  <2>3. refresh'[b].cookie = given
    BY <2>2 DEF Arrived, Unusable, NoRefresh
  <2>4. given # NoCookie => status[given[1]] = "open"
    BY <1>0, <2>1, PresentFacts DEF Refresh
  <2>5. QED
    BY <2>3, <2>4 DEF SignInOf
<1>2. CASE LimitRefresh(b) \/ FailRefresh(b)
  <2>1. ~ AnswerRefresh(b) => refresh'[b] = [refresh[b] EXCEPT !.phase = "pause"]
    BY <1>2, AnswerFacts
  <2>2. [refresh[b] EXCEPT !.phase = "pause"].phase = "pause"
    BY <1>0 DEF Refresh
  <2>3. QED
    BY <1>1, <2>1, <2>2
<1>3. CASE SendRefresh(b) \/ Settle(b)
  <2>1. SendRefresh(b) => refresh'[b].phase = "sent"
    BY <1>0 DEF SendRefresh, TabsTyped, Refresh
  <2>2. Settle(b) => refresh'[b].phase = "none"
    BY DEF Settle, NoRefresh, TabsTyped
  <2>3. QED
    BY <1>3, <2>1, <2>2
<1>4. CASE EndCall(b) \/ UnauthorisedAgain(b) \/ SignOut(b) \/ Receive(b)
  <2>1. refresh'[b] \in {refresh[b], RefreshEnded(b)}
    BY <1>4 DEF EndCall, UnauthorisedAgain, SignOut, Receive, Close, TabsTyped
  <2>2. QED
    BY <2>1, EndedKinds
<1>5. CASE Unauthorised(b)
  BY <1>5 DEF Unauthorised, JoinRefresh, NoRefresh, TabsTyped
<1>6. CASE Restored(b) \/ SendLogout(b) \/ AnswerLogout(b) \/ FailLogout(b) \/ StartCall(b)
           \/ \E s \in SignIns, remember \in RememberMe : SignIn(b, s, remember)
  BY <1>6 DEF Restored, SendLogout, AnswerLogout, FailLogout, StartCall, SignIn
<1>7. CASE \E reload, link \in BOOLEAN : Open(b, reload, link)
  BY <1>7 DEF Open, NoRefresh, TabsTyped
<1>8. QED
  BY <1>1, <1>2, <1>3, <1>4, <1>5, <1>6, <1>7 DEF ByTab, Step

\* A tab's token is the one it had, the one a refresh has brought or a new one.
LEMMA TokenFacts ==
  ASSUME IInv, NEW b \in Tabs, ByTab(b)
  PROVE  \/ page'[b].token \in {None, page[b].token}
         \/ /\ refresh[b].phase = "arrived" /\ refresh[b].answer = "ok"
            /\ page'[b].token \in SignInOf(refresh[b].cookie)
         \/ page'[b].token \in SignIns /\ status[page'[b].token] = "never"
<1> USE Known
<1>0. page[b] \in Page /\ refresh[b] \in Refresh
  BY DEF TabsTyped
<1>1. CASE Settle(b)
  <2>1. CASE refresh[b].answer = "ok"
    <3>1. refresh[b].cookie \in Cookies
      BY <1>0, <1>1, <2>1 DEF Settle, HandedOut, Refresh
    <3>2. page'[b].token = refresh[b].cookie[1] /\ refresh[b].phase = "arrived"
      BY <1>0, <1>1, <2>1 DEF Settle, TabsTyped, Page
    <3>3. QED
      BY <2>1, <3>1, <3>2, CookieFacts
  <2>2. CASE refresh[b].answer # "ok"
    <3>1. page'[b] \in {page[b], Dropped(page[b])}
      BY <1>1, <2>2 DEF Settle, TabsTyped
    <3>2. QED
      BY <3>1, DroppedFacts
  <2>3. QED
    BY <2>1, <2>2
<1>2. CASE EndCall(b) \/ UnauthorisedAgain(b)
  <2>1. page'[b] \in {page[b], Dropped(page[b])}
    BY <1>2 DEF EndCall, UnauthorisedAgain, TabsTyped
  <2>2. QED
    BY <2>1, DroppedFacts
<1>3. CASE Restored(b) \/ AnswerLogout(b) \/ FailLogout(b)
  BY <1>0, <1>3 DEF Restored, AnswerLogout, FailLogout, SignedOut, TabsTyped, Page
<1>4. CASE SendRefresh(b) \/ AnswerRefresh(b) \/ LimitRefresh(b) \/ FailRefresh(b)
           \/ Unauthorised(b) \/ SendLogout(b) \/ StartCall(b)
  BY <1>4 DEF SendRefresh, AnswerRefresh, LimitRefresh, FailRefresh, Unauthorised,
     SendLogout, StartCall
<1>5. ASSUME NEW s \in SignIns, NEW remember \in RememberMe, SignIn(b, s, remember)
      PROVE  page'[b].token = s /\ status[s] = "never"
  BY <1>0, <1>5 DEF SignIn, TabsTyped, Page
<1>6. CASE SignOut(b) \/ Receive(b)
  BY <1>6 DEF SignOut, Receive, Close, Guest, TabsTyped
<1>7. CASE \E reload, link \in BOOLEAN : Open(b, reload, link)
  BY <1>7 DEF Open, Guest, TabsTyped
<1>8. QED
  BY <1>1, <1>2, <1>3, <1>4, <1>5, <1>6, <1>7 DEF ByTab, Step

\* The cookie stays, goes, or is one of an open sign-in or of a new one.
LEMMA CookieKinds ==
  ASSUME IInv, [Next]_vars
  PROVE  \/ cookie' \in {cookie, NoCookie}
         \/ \A s \in SignInOf(cookie') : status[s] \in {"open", "never"}
<1> USE Known DEF browser
<1>1. CASE \E s \in SignIns : EndElsewhere(s) \/ Elapse(s)
  BY <1>1, ServerAlone
<1>2. ASSUME NEW b \in Tabs, ByTab(b)
      PROVE  \/ cookie' \in {cookie, NoCookie}
             \/ \A s \in SignInOf(cookie') : status[s] \in {"open", "never"}
  <2>1. CASE AnswerRefresh(b)
    <3>1. PICK given \in Cookies \union {NoCookie} :
            /\ Present(refresh[b].cookie, given)
            /\ cookie' = IF refresh[b].cookie = NoCookie THEN cookie ELSE given
      BY <2>1 DEF AnswerRefresh
    <3>2. refresh[b].cookie \in Cookies \union {NoCookie}
      BY DEF TabsTyped, Refresh
    <3>3. given # NoCookie => status[given[1]] = "open"
      BY <3>1, <3>2, PresentFacts
    <3>4. QED
      BY <3>1, <3>3 DEF SignInOf
  <2>2. ASSUME NEW s \in SignIns, NEW remember \in RememberMe, SignIn(b, s, remember)
        PROVE  \A r \in SignInOf(cookie') : status[r] \in {"open", "never"}
    BY <2>2 DEF SignIn, SignInOf
  <2>3. CASE AnswerLogout(b) \/ FailLogout(b) \/ \E reload, link \in BOOLEAN : Open(b, reload, link)
    BY <2>3 DEF AnswerLogout, FailLogout, Open
  <2>4. CASE SendRefresh(b) \/ LimitRefresh(b) \/ FailRefresh(b) \/ Settle(b) \/ EndCall(b)
             \/ Restored(b) \/ Unauthorised(b) \/ UnauthorisedAgain(b) \/ SendLogout(b)
             \/ StartCall(b) \/ SignOut(b) \/ Receive(b)
    BY <2>4 DEF SendRefresh, LimitRefresh, FailRefresh, Settle, EndCall, Restored, Unauthorised,
       UnauthorisedAgain, SendLogout, StartCall, SignOut, Receive
  <2>5. QED
    BY <1>2, <2>1, <2>2, <2>3, <2>4 DEF ByTab, Step
<1>3. CASE UNCHANGED vars
  BY <1>3 DEF vars
<1>4. QED
  BY <1>1, <1>2, <1>3, StepKinds

-----------------------------------------------------------------------------
(* Sign-ins that were left. *)

\* A sign-in counts as left once the tab that left it has its logout answered.
LEMMA NewlyClosed ==
  ASSUME IInv, [Next]_vars
  PROVE  \A x \in closed' :
           \/ x \in closed
           \/ \E b \in Tabs : /\ AnswerLogout(b) /\ x[1] = b
                             /\ x[2] \in SignInOf(out[b].cookie) \intersect {out[b].left}
<1> USE Known
<1>1. ASSUME NEW b \in Tabs, ByTab(b), ~ AnswerLogout(b) PROVE closed' = closed
  BY <1>1 DEF ByTab, Step, SendRefresh, AnswerRefresh, LimitRefresh, FailRefresh, Settle,
     EndCall, Restored, Unauthorised, UnauthorisedAgain, SendLogout, FailLogout, StartCall,
     SignIn, SignOut, Receive, Open, ghosts
<1>2. ASSUME NEW b \in Tabs, AnswerLogout(b)
      PROVE  closed' = closed \union
               ({b} \X (SignInOf(out[b].cookie) \intersect {out[b].left}))
  BY <1>2 DEF AnswerLogout
<1>3. CASE \E b \in Tabs : AnswerLogout(b)
  BY <1>2, <1>3
<1>4. CASE ~ \E b \in Tabs : AnswerLogout(b)
  BY <1>1, <1>4, StepKinds, ServerAlone DEF vars, ghosts
<1>5. QED
  BY <1>3, <1>4

LEMMA ClosedStep ==
  ASSUME IInv, [Next]_vars PROVE ClosedIsOver'
<1> USE Known
<1> DEFINE Over(b, s) ==
      /\ status'[s] = "ended"
      /\ ~ (refresh'[b].phase = "arrived" /\ refresh'[b].answer = "ok"
              /\ s \in SignInOf(refresh'[b].cookie))
<1>1. ASSUME NEW b \in Tabs, NEW s \in SignIns, <<b, s>> \in closed PROVE Over(b, s)
  <2>1. /\ status[s] = "ended"
        /\ ~ (refresh[b].phase = "arrived" /\ refresh[b].answer = "ok"
                /\ s \in SignInOf(refresh[b].cookie))
    BY <1>1 DEF ClosedIsOver
  <2>2. status'[s] = "ended"
    BY <2>1, EndedStays
  <2>3. CASE refresh'[b] = refresh[b]
    BY <2>1, <2>2, <2>3
  <2>4. CASE refresh'[b] # refresh[b]
    <3>1. ByTab(b)
      BY <2>4, StepKinds, ServerAlone, OthersStay DEF vars
    <3>2. QED
      BY <2>1, <2>2, <2>4, <3>1, BroughtFacts
  <2>5. QED
    BY <2>3, <2>4
<1>2. ASSUME NEW b \in Tabs, AnswerLogout(b),
             NEW s \in SignInOf(out[b].cookie) \intersect {out[b].left}
      PROVE  Over(b, s)
  <2>1. /\ out[b].cookie \in Cookies \union {NoCookie} /\ Opened(out[b].cookie)
        /\ refresh' = refresh /\ out[b].phase = "sent" /\ End(out[b].cookie)
    BY <1>2, HandedOutByTab DEF AnswerLogout, SignedOut, TabsTyped, Out
  <2>2. status'[s] = "ended"
    BY <2>1, EndFacts DEF Opened
  <2>3. LeavesOf(b)
    BY LeavesByTab
  <2>4. QED
    BY <2>1, <2>2, <2>3 DEF LeavesOf
<1>4. \A x \in closed : x[1] \in Tabs /\ x[2] \in SignIns /\ x = <<x[1], x[2]>>
  BY DEF TabsTyped
<1>5. \A x \in closed' : Over(x[1], x[2])
  BY <1>1, <1>2, <1>4, NewlyClosed
<1>6. QED
  BY <1>5 DEF ClosedIsOver, SignInOf

-----------------------------------------------------------------------------
(* The cookie keeps up with the newest token. *)

AtWork(b) == refresh[b].phase \in {"sent", "pause"}

\* What a tab asks with is the newest token, or, asking again, the one before it
\* within the grace window.
Asks(b) ==
  \A s \in SignInOf(refresh[b].cookie) \ abandoned : status[s] = "open" =>
    \/ refresh[b].cookie[2] = newest[s]
    \/ /\ refresh[b].cookie[2] + 1 = newest[s] /\ s \in inGrace
       /\ refresh[b].phase = "pause" \/ refresh[b].retried

CookieKeepsUp ==
  \A s \in SignInOf(cookie) \ abandoned : status[s] = "open" =>
    cookie[2] = newest[s] \/ \E b \in Tabs : AtWork(b) /\ refresh[b].cookie = cookie

LEMMA KeepsByTab == KeepsUp <=> CookieKeepsUp /\ \A b \in Tabs : AtWork(b) => Asks(b)
  BY DEF KeepsUp, CookieKeepsUp, AtWork, Asks

\* One request has the lock.
LEMMA OneAtWork ==
  ASSUME IInv, NEW b \in Tabs
  PROVE  /\ AtWork(b) => /\ \A c \in Tabs \ {b} : ~ AtWork(c)
                         /\ \A c \in Tabs : out[c].phase # "sent"
         /\ out[b].phase = "sent" => \A c \in Tabs : ~ AtWork(c)
<1>1. ASSUME NEW c \in Tabs
      PROVE  /\ AtWork(c) => queue[1] = <<c, "refresh">>
             /\ out[c].phase = "sent" => queue[1] = <<c, "logout">>
  BY Known DEF LockOf, AtWork, First
<1>2. ASSUME NEW c \in Tabs, NEW d \in Tabs
      PROVE  /\ AtWork(c) /\ AtWork(d) => c = d
             /\ ~ (AtWork(c) /\ out[d].phase = "sent")
  <2>1. /\ <<c, "refresh">> # <<d, "logout">>
        /\ <<c, "refresh">> = <<d, "refresh">> => c = d
    OBVIOUS
  <2>2. /\ AtWork(c) => queue[1] = <<c, "refresh">>
        /\ AtWork(d) => queue[1] = <<d, "refresh">>
        /\ out[d].phase = "sent" => queue[1] = <<d, "logout">>
    BY <1>1
  <2>3. QED
    BY <2>1, <2>2
<1>3. QED
  BY <1>2

\* Nothing of it is touched.
LEMMA KeepsSame ==
  ASSUME KeepsUp, UNCHANGED <<server, cookie, abandoned>>,
         \A b \in Tabs : AtWork(b) \/ AtWork(b)' =>
           /\ refresh'[b].phase = refresh[b].phase
           /\ refresh'[b].cookie = refresh[b].cookie
           /\ refresh'[b].retried = refresh[b].retried
  PROVE  CookieKeepsUp' /\ \A b \in Tabs : AtWork(b)' => Asks(b)'
<1>1. \A b \in Tabs : AtWork(b)' => Asks(b)'
  BY KeepsByTab DEF AtWork, Asks, server
<1>2. CookieKeepsUp'
  BY KeepsByTab DEF AtWork, CookieKeepsUp, SignInOf, server
<1>3. QED
  BY <1>1, <1>2

\* A sign-in that is still open after a step of the server was open before it.
LEMMA OpenBefore ==
  ASSUME ServerOK, NEW those, ServerMoves(those), NEW s \in SignIns, status'[s] = "open"
  PROVE  /\ status[s] = "open"
         /\ s \notin those => newest'[s] = newest[s] /\ (s \in inGrace' <=> s \in inGrace)
  BY DEF ServerMoves, ServerOK

\* When nobody is at work after the step, the cookie has to be the newest token.
LEMMA NobodyAtWork ==
  ASSUME \A b \in Tabs : ~ AtWork(b)',
         \A s \in SignInOf(cookie') \ abandoned' : status'[s] = "open" => cookie'[2] = newest'[s]
  PROVE  CookieKeepsUp' /\ \A b \in Tabs : AtWork(b)' => Asks(b)'
  BY DEF CookieKeepsUp, SignInOf

LEMMA KeepsStep ==
  ASSUME IInv, [Next]_vars PROVE KeepsUp'
<1> USE Known
<1> DEFINE Keeps == CookieKeepsUp' /\ \A b \in Tabs : AtWork(b)' => Asks(b)'
<1>0. /\ CookieKeepsUp /\ \A b \in Tabs : AtWork(b) => Asks(b)
      /\ cookie \in Cookies \union {NoCookie}
      /\ \A s \in SignInOf(cookie) : s \in SignIns /\ status[s] # "never"
      /\ \A b \in Tabs : refresh[b] \in Refresh
  BY KeepsByTab, CookieFacts DEF HandedOut, TabsTyped
<1>p. SUFFICES Keeps
  BY DEF KeepsUp, CookieKeepsUp, AtWork, Asks
<1>1. ASSUME NEW s \in SignIns, EndElsewhere(s) PROVE Keeps
  <2>1. ServerMoves({s}) /\ status'[s] = "ended"
    BY <1>1, EndedFacts DEF EndElsewhere
  <2>2. UNCHANGED <<cookie, refresh, abandoned>>
    BY <1>1, ServerAlone
  <2>3. \A r \in SignIns : status'[r] = "open" =>
          status[r] = "open" /\ newest'[r] = newest[r] /\ (r \in inGrace' <=> r \in inGrace)
    BY <2>1, OpenBefore
  <2>4. ASSUME NEW b \in Tabs, AtWork(b)' PROVE Asks(b)'
    <3>1. SignInOf(refresh[b].cookie) \subseteq SignIns
      BY <1>0, CookieFacts DEF Refresh
    <3>2. AtWork(b)
      BY <2>2, <2>4 DEF AtWork
    <3>3. QED
      BY <1>0, <2>2, <2>3, <3>1, <3>2 DEF Asks
  <2>5. CookieKeepsUp'
    BY <1>0, <2>2, <2>3 DEF CookieKeepsUp, AtWork, SignInOf
  <2>6. QED
    BY <2>4, <2>5
<1>2. ASSUME NEW s \in SignIns, Elapse(s) PROVE Keeps
  <2>1. UNCHANGED <<status, newest, cookie, refresh, abandoned>> /\ inGrace' = inGrace \ {s}
    BY <1>2 DEF Elapse, browser, ghosts
  <2>2. \A b \in Tabs : AtWork(b) => s \notin SignInOf(refresh[b].cookie)
    BY <1>2 DEF Elapse, AtWork
  <2>3. CookieKeepsUp'
    BY <1>0, <2>1 DEF CookieKeepsUp, AtWork, SignInOf
  <2>4. ASSUME NEW b \in Tabs, AtWork(b)' PROVE Asks(b)'
    BY <1>0, <2>1, <2>2, <2>4 DEF AtWork, Asks
  <2>5. QED
    BY <2>3, <2>4
<1>3. ASSUME NEW b \in Tabs, ByTab(b) PROVE Keeps
  <2>0. /\ \A c \in Tabs \ {b} : refresh'[c] = refresh[c]
        /\ refresh[b].cookie \in Cookies \union {NoCookie}
        /\ out[b].cookie \in Cookies \union {NoCookie}
        /\ Opened(refresh[b].cookie) /\ Opened(out[b].cookie)
        /\ refresh[b] \in Refresh
    BY <1>3, OthersStay, HandedOutByTab DEF TabsTyped, Refresh, Out
  <2> DEFINE c0 == refresh[b].cookie
  <2>k. ASSUME UNCHANGED <<server, cookie, abandoned>>,
               \/ refresh'[b].phase \notin {"sent", "pause"} /\ ~ AtWork(b)
               \/ /\ refresh'[b].phase = refresh[b].phase
                  /\ refresh'[b].cookie = refresh[b].cookie
                  /\ refresh'[b].retried = refresh[b].retried
        PROVE  Keeps
    BY <2>k, <2>0, KeepsSame DEF AtWork
  <2>1. CASE SendRefresh(b)
    <3>1. /\ UNCHANGED <<server, cookie, abandoned>>
          /\ refresh'[b].phase = "sent" /\ refresh'[b].cookie = cookie
          /\ refresh'[b].retried = (refresh[b].phase = "pause")
          /\ First(queue, <<b, "refresh">>) /\ refresh[b].phase \in {"queued", "pause"}
      BY <2>0, <2>1 DEF SendRefresh, Turn, First, TabsTyped, Refresh, browser, ghosts
    <3>2. \A c \in Tabs \ {b} : ~ AtWork(c) /\ ~ AtWork(c)'
      <4>1. \A c \in Tabs : AtWork(c) => queue[1] = <<c, "refresh">>
        BY DEF LockOf, AtWork, First
      <4>2. QED
        BY <2>0, <3>1, <4>1 DEF AtWork, First
    <3>3. AtWork(b)' /\ CookieKeepsUp'
      BY <3>1 DEF AtWork, CookieKeepsUp
    <3>4. Asks(b)'
      <4>1. SUFFICES ASSUME NEW s \in SignInOf(cookie) \ abandoned, status[s] = "open"
                     PROVE  \/ cookie[2] = newest[s]
                            \/ /\ cookie[2] + 1 = newest[s] /\ s \in inGrace
                               /\ refresh[b].phase = "pause"
        BY <3>1 DEF Asks, server
      <4>2. CASE cookie[2] = newest[s]
        BY <4>2
      <4>3. CASE AtWork(b) /\ refresh[b].cookie = cookie
        BY <1>0, <3>1, <4>1, <4>3 DEF Asks, AtWork
      <4>4. QED
        BY <1>0, <3>2, <4>1, <4>2, <4>3 DEF CookieKeepsUp
    <3>5. QED
      BY <3>2, <3>3, <3>4
  <2>2. CASE AnswerRefresh(b)
    <3>1. PICK given \in Cookies \union {NoCookie} :
            /\ Present(c0, given)
            /\ cookie' = IF c0 = NoCookie THEN cookie ELSE given
      BY <2>2 DEF AnswerRefresh
    <3>2. \A c \in Tabs : ~ AtWork(c)'
      <4>1. /\ AtWork(b) /\ refresh'[b].phase \in {"arrived", "none"}
        <5>1. AtWork(b)
          BY <2>2 DEF AnswerRefresh, AtWork
        <5>2. PICK answer \in {"refused", "ok", "failed"}, g \in Cookies \union {NoCookie} :
                refresh' = [refresh EXCEPT ![b] = Arrived(b, answer, g)]
          BY <2>2 DEF AnswerRefresh
        <5>3. refresh'[b] = Arrived(b, answer, g)
          BY <5>2 DEF TabsTyped
        <5>4. QED
          BY <5>1, <5>3 DEF Arrived, Unusable, NoRefresh
      <4>2. \A c \in Tabs \ {b} : ~ AtWork(c)
        BY <4>1, OneAtWork
      <4>3. QED
        BY <2>0, <4>1, <4>2 DEF AtWork
    <3>3. CASE c0 = NoCookie
      <4>1. UNCHANGED server /\ cookie' = cookie /\ abandoned' = abandoned
        <5>1. SignInOf(c0) = {} /\ abandoned' = abandoned
          BY <2>2, <3>3 DEF SignInOf, AnswerRefresh, ghosts
        <5>2. QED
          BY <3>1, <3>3, <5>1 DEF Present
      <4>2. \A c \in Tabs : AtWork(c) => refresh[c].cookie = NoCookie
        BY <2>2, <3>3, OneAtWork DEF AnswerRefresh, AtWork
      <4>3. \A s \in SignInOf(cookie) \ abandoned : status[s] = "open" => cookie[2] = newest[s]
        BY <1>0, <4>2 DEF CookieKeepsUp, SignInOf
      <4>4. QED
        BY <3>2, <4>1, <4>3, NobodyAtWork DEF server
    <3>4. CASE c0 # NoCookie
      <4>1. cookie' = given /\ (given # NoCookie => given[2] = newest'[given[1]])
        BY <2>0, <3>1, <3>4, PresentFacts
      <4>2. \A s \in SignInOf(cookie') : cookie'[2] = newest'[s]
        BY <4>1 DEF SignInOf
      <4>3. QED
        BY <3>2, <4>2, NobodyAtWork
    <3>5. QED
      BY <3>3, <3>4
  <2>3. CASE LimitRefresh(b) \/ (FailRefresh(b) /\ refresh[b].retried)
    <3>1. /\ AtWork(b) /\ refresh[b].phase = "sent" /\ cookie' = cookie
          /\ refresh'[b] = Arrived(b, "failed", NoCookie)
          /\ abandoned' = IF refresh[b].retried THEN abandoned \union SignInOf(c0) ELSE abandoned
          /\ UNCHANGED server \/ refresh[b].retried
      BY <2>3 DEF LimitRefresh, FailRefresh, AtWork, TabsTyped, browser
    <3>2. \A c \in Tabs : ~ AtWork(c)'
      <4>1. refresh'[b].phase = "arrived"
        BY <3>1 DEF Arrived, Unusable, NoRefresh
      <4>2. QED
        BY <2>0, <3>1, <4>1, OneAtWork DEF AtWork
    <3>3. ServerMoves(SignInOf(c0))
      BY <2>0, <2>3, StillFacts, UnheardFacts DEF LimitRefresh, FailRefresh
    <3>4. ASSUME NEW s \in SignInOf(cookie) \ abandoned', status'[s] = "open"
          PROVE  cookie[2] = newest'[s]
      <4>1. s \in SignIns /\ s \notin abandoned /\ status[s] = "open"
            /\ (s \notin SignInOf(c0) => newest'[s] = newest[s])
        BY <1>0, <3>1, <3>3, <3>4, OpenBefore
      <4>2. cookie[2] = newest[s] \/ refresh[b].cookie = cookie
        BY <1>0, <3>1, <3>4, <4>1, OneAtWork DEF CookieKeepsUp
      <4>3. CASE refresh[b].retried
        BY <3>1, <3>4, <4>1, <4>2, <4>3
      <4>4. CASE ~ refresh[b].retried
        BY <1>0, <3>1, <3>4, <4>1, <4>2, <4>4 DEF Asks, server
      <4>5. QED
        BY <4>3, <4>4
    <3>5. QED
      BY <3>1, <3>2, <3>4, NobodyAtWork
  <2>4. CASE FailRefresh(b) /\ ~ refresh[b].retried
    <3>1. /\ AtWork(b) /\ refresh[b].phase = "sent" /\ UNCHANGED <<cookie, abandoned>>
          /\ refresh'[b] = [refresh[b] EXCEPT !.phase = "pause"] /\ Unheard(c0)
      BY <2>4 DEF FailRefresh, AtWork, TabsTyped, browser
    <3>2. refresh'[b].phase = "pause" /\ refresh'[b].cookie = c0
      BY <2>0, <3>1 DEF Refresh
    <3>3. \A c \in Tabs \ {b} : ~ AtWork(c) /\ ~ AtWork(c)'
      BY <2>0, <3>1, OneAtWork DEF AtWork
    <3>4. ServerMoves(SignInOf(c0))
      BY <2>0, <3>1, UnheardFacts
    <3>5. \A s \in SignInOf(c0) \ abandoned : status[s] = "open" => c0[2] = newest[s]
      BY <1>0, <2>4, <3>1 DEF Asks
    <3>6. ASSUME NEW s \in SignInOf(c0) \ abandoned, status'[s] = "open"
          PROVE  c0[2] = newest'[s] \/ (c0[2] + 1 = newest'[s] /\ s \in inGrace')
      <4>1. s \in SignIns /\ status[s] = "open"
        <5>1. s \in SignIns
          BY <2>0, CookieFacts
        <5>2. QED
          BY <3>4, <3>6, <5>1, OpenBefore
      <4>2. \/ newest'[s] = c0[2] + 1 /\ s \in inGrace'
            \/ UNCHANGED server
            \/ status'[s] = "ended"
        BY <2>0, <3>1, <3>6, <4>1, UnheardFacts
      <4>3. QED
        BY <3>5, <3>6, <4>1, <4>2 DEF server
    <3>7. Asks(b)'
      BY <3>1, <3>2, <3>6 DEF Asks
    <3>8. CookieKeepsUp'
      <4>1. SUFFICES ASSUME NEW s \in SignInOf(cookie) \ abandoned, status'[s] = "open"
                     PROVE  cookie[2] = newest'[s] \/ c0 = cookie
        BY <3>1, <3>2 DEF CookieKeepsUp, AtWork, SignInOf
      <4>2. s \in SignIns /\ status[s] = "open" /\ (s \notin SignInOf(c0) => newest'[s] = newest[s])
        BY <1>0, <3>4, <4>1, OpenBefore
      <4>3. cookie[2] = newest[s] \/ c0 = cookie
        BY <1>0, <3>3, <4>1, <4>2 DEF CookieKeepsUp
      <4>4. CASE s \in SignInOf(c0) /\ cookie[2] = newest[s]
        <5>1. c0[2] = newest[s] /\ c0 \in Cookies /\ cookie \in Cookies
              /\ c0[1] = s /\ cookie[1] = s
          BY <1>0, <2>0, <3>5, <4>1, <4>2, <4>4 DEF SignInOf
        <5>2. QED
          BY <4>4, <5>1, CookieFacts
      <4>5. QED
        BY <4>2, <4>3, <4>4
    <3>9. QED
      BY <3>3, <3>7, <3>8
  <2>5. CASE Settle(b)
    <3>1. /\ UNCHANGED <<server, cookie, abandoned>> /\ refresh[b].phase = "arrived"
          /\ refresh'[b].phase = "none"
      BY <2>5 DEF Settle, NoRefresh, TabsTyped, browser, ghosts
    <3>2. QED
      BY <2>k, <3>1 DEF AtWork
  <2>6. CASE EndCall(b) \/ UnauthorisedAgain(b) \/ SignOut(b) \/ Receive(b)
    <3>1. /\ UNCHANGED <<server, cookie, abandoned>>
          /\ refresh'[b] \in {refresh[b], RefreshEnded(b)}
      BY <2>6 DEF EndCall, UnauthorisedAgain, SignOut, Receive, Close, TabsTyped, browser, ghosts
    <3>2. CASE AtWork(b)
      <4>1. RefreshEnded(b) = [refresh[b] EXCEPT !.ended = TRUE]
        BY <3>2 DEF RefreshEnded, AtWork
      <4>2. /\ refresh'[b].phase = refresh[b].phase
            /\ refresh'[b].cookie = refresh[b].cookie
            /\ refresh'[b].retried = refresh[b].retried
        BY <2>0, <3>1, <4>1 DEF Refresh
      <4>3. QED
        BY <2>k, <3>1, <4>2
    <3>3. CASE ~ AtWork(b)
      <4>1. RefreshEnded(b).phase = refresh[b].phase
        BY EndedKinds
      <4>2. QED
        BY <2>k, <3>1, <3>3, <4>1 DEF AtWork
    <3>4. QED
      BY <3>2, <3>3
  <2>7. CASE Unauthorised(b)
    <3>1. /\ UNCHANGED <<server, cookie, abandoned>>
          /\ \/ refresh' = refresh
             \/ /\ refresh[b].phase = "none"
                /\ refresh'[b] = [NoRefresh EXCEPT !.phase = "queued"]
      BY <2>7 DEF Unauthorised, JoinRefresh, TabsTyped, browser, ghosts
    <3>2. [NoRefresh EXCEPT !.phase = "queued"].phase = "queued"
      BY DEF NoRefresh
    <3>3. QED
      BY <2>k, <3>1, <3>2 DEF AtWork
  <2>8. CASE Restored(b) \/ StartCall(b) \/ SendLogout(b)
    <3>1. UNCHANGED <<server, cookie, abandoned, refresh>>
      BY <2>8 DEF Restored, StartCall, SendLogout, browser, ghosts
    <3>2. QED
      BY <2>k, <3>1
  <2>9. CASE AnswerLogout(b) \/ FailLogout(b)
    <3>1. /\ refresh' = refresh /\ abandoned' = abandoned /\ out[b].phase = "sent"
          /\ cookie' = NoCookie \/ cookie' = cookie
          /\ UNCHANGED server \/ End(out[b].cookie)
      BY <2>9 DEF AnswerLogout, FailLogout, SignedOut, browser, ghosts
    <3>2. \A c \in Tabs : ~ AtWork(c) /\ ~ AtWork(c)'
      BY <3>1, OneAtWork DEF AtWork
    <3>3. \A s \in SignIns : status'[s] = "open" => status[s] = "open" /\ newest'[s] = newest[s]
      <4>1. CASE UNCHANGED server
        BY <4>1 DEF server
      <4>2. CASE End(out[b].cookie)
        BY <2>0, <4>2, EndFacts, OpenBefore DEF Opened
      <4>3. QED
        BY <3>1, <4>1, <4>2
    <3>4. ASSUME NEW s \in SignInOf(cookie') \ abandoned', status'[s] = "open"
          PROVE  cookie'[2] = newest'[s]
      <4>1. cookie' = cookie /\ s \in SignIns /\ s \in SignInOf(cookie) \ abandoned
        BY <1>0, <3>1, <3>4, CookieFacts
      <4>2. QED
        BY <1>0, <3>2, <3>3, <3>4, <4>1 DEF CookieKeepsUp
    <3>5. QED
      BY <3>2, <3>4, NobodyAtWork
  <2>10. ASSUME NEW s \in SignIns, NEW remember \in RememberMe, SignIn(b, s, remember)
         PROVE  Keeps
    <3>1. /\ \A r \in SignIns \ {s} : status'[r] = status[r]
          /\ UNCHANGED <<newest, inGrace, refresh, abandoned>> /\ cookie' = <<s, 0>>
          /\ status[s] = "never" /\ newest[s] = 0
      BY <2>10 DEF SignIn, ServerOK, HandedOut, ghosts
    <3>2. CookieKeepsUp'
      BY <3>1 DEF CookieKeepsUp, SignInOf
    <3>3. ASSUME NEW c \in Tabs, AtWork(c)' PROVE Asks(c)'
      <4>1. SignInOf(refresh[c].cookie) \subseteq SignIns \ {s}
        BY <1>0, <3>1, CookieFacts DEF Refresh, HandedOut
      <4>2. AtWork(c)
        BY <3>1, <3>3 DEF AtWork
      <4>3. QED
        BY <1>0, <3>1, <4>1, <4>2 DEF Asks
    <3>4. QED
      BY <3>2, <3>3
  <2>11. ASSUME NEW reload \in BOOLEAN, NEW link \in BOOLEAN, Open(b, reload, link)
         PROVE  Keeps
    <3>1. /\ cookie' = cookie
          /\ abandoned' = IF AtWork(b) THEN abandoned \union SignInOf(c0) ELSE abandoned
          /\ refresh'[b] \in {[NoRefresh EXCEPT !.phase = "queued"], NoRefresh}
      BY <2>11 DEF Open, AtWork, TabsTyped
    <3>2. refresh'[b].phase \in {"queued", "none"} /\ ~ AtWork(b)'
      <4>1. /\ [NoRefresh EXCEPT !.phase = "queued"].phase = "queued"
            /\ NoRefresh.phase = "none"
        BY DEF NoRefresh
      <4>2. QED
        BY <3>1, <4>1 DEF AtWork
    <3>3. CASE AtWork(b)
      <4>1. \A c \in Tabs : ~ AtWork(c)'
        BY <2>0, <3>2, <3>3, OneAtWork DEF AtWork
      <4>2. ServerMoves(SignInOf(c0))
        <5>1. out[b].phase # "sent"
          BY <3>3, OneAtWork
        <5>2. QED
          BY <2>0, <2>11, <5>1, OpenedServer, StillFacts, UnheardFacts
      <4>3. ASSUME NEW s \in SignInOf(cookie) \ abandoned', status'[s] = "open"
            PROVE  cookie[2] = newest'[s]
        <5>1. s \in SignIns /\ s \notin abandoned /\ s \notin SignInOf(c0)
          BY <1>0, <3>1, <3>3, <4>3
        <5>2. status[s] = "open" /\ newest'[s] = newest[s]
          BY <4>2, <4>3, <5>1, OpenBefore
        <5>3. cookie[2] = newest[s] \/ refresh[b].cookie = cookie
          BY <1>0, <3>3, <4>3, <5>1, <5>2, OneAtWork DEF CookieKeepsUp
        <5>4. QED
          BY <4>3, <5>1, <5>2, <5>3
      <4>4. QED
        BY <3>1, <4>1, <4>3, NobodyAtWork
    <3>4. CASE ~ AtWork(b)
      <4>1. /\ abandoned' = abandoned
            /\ UNCHANGED server \/ (out[b].phase = "sent" /\ End(out[b].cookie))
        BY <2>11, <3>1, <3>4, OpenedServer DEF AtWork
      <4>2. CASE UNCHANGED server
        BY <2>k, <3>1, <3>2, <3>4, <4>1, <4>2
      <4>3. CASE out[b].phase = "sent" /\ End(out[b].cookie)
        <5>1. \A c \in Tabs : ~ AtWork(c) /\ ~ AtWork(c)'
          BY <2>0, <3>2, <4>3, OneAtWork DEF AtWork
        <5>2. \A s \in SignIns : status'[s] = "open" => status[s] = "open" /\ newest'[s] = newest[s]
          BY <2>0, <4>3, EndFacts, OpenBefore DEF Opened
        <5>3. \A s \in SignInOf(cookie') \ abandoned' :
                status'[s] = "open" => cookie'[2] = newest'[s]
          BY <1>0, <3>1, <4>1, <5>1, <5>2 DEF CookieKeepsUp
        <5>4. QED
          BY <5>1, <5>3, NobodyAtWork
      <4>4. QED
        BY <4>1, <4>2, <4>3
    <3>5. QED
      BY <3>3, <3>4
  <2>12. QED
    BY <1>3, <2>1, <2>2, <2>3, <2>4, <2>5, <2>6, <2>7, <2>8, <2>9, <2>10, <2>11 DEF ByTab, Step
<1>4. CASE UNCHANGED vars
  BY <1>4, KeepsSame DEF vars, browser, ghosts
<1>5. QED
  BY <1>1, <1>2, <1>3, <1>4, StepKinds

-----------------------------------------------------------------------------
(* The theorems. *)

LEMMA IInvInit == Init => IInv
<1> SUFFICES ASSUME Init PROVE IInv
  OBVIOUS
<1>1. /\ status = [s \in SignIns |-> "never"] /\ newest = [s \in SignIns |-> 0]
      /\ cookie = NoCookie /\ queue = << >> /\ closed = {}
      /\ \A b \in Tabs : /\ page[b] = Guest /\ refresh[b] = NoRefresh
                         /\ call[b] = NoCall /\ out[b] = NoOut
  BY DEF Init
<1>2. /\ NoRefresh.phase = "none" /\ NoRefresh.cookie = NoCookie
      /\ NoOut.phase = "none" /\ NoOut.cookie = NoCookie /\ NoOut.left = None
      /\ NoCall.phase = "none" /\ ~ NoCall.restore
      /\ Guest.token = None /\ ~ Guest.signingOut
  BY DEF NoRefresh, NoOut, NoCall, Guest
<1>3. LockHeld
  <2>1. queue \in Seq(Requests) /\ DOMAIN queue = {}
    BY <1>1
  <2>2. Once(queue) /\ \A b \in Tabs : LockOf(b)
    BY <1>1, <1>2, <2>1 DEF Once, LockOf, Asked
  <2>3. QED
    BY <2>1, <2>2, LockHeldByTab
<1>4. CallsWait /\ LeavesForGood /\ RestoresWithToken
  BY <1>1, <1>2 DEF CallsWait, LeavesForGood, RestoresWithToken
<1>5. HandedOut
  BY <1>1, <1>2, CookieFacts DEF HandedOut
<1>6. ClosedIsOver /\ KeepsUp
  BY <1>1, <1>2, CookieFacts DEF ClosedIsOver, KeepsUp
<1>7. QED
  BY <1>3, <1>4, <1>5, <1>6, TypeInit DEF IInv

LEMMA IInvStep == IInv /\ [Next]_vars => IInv'
<1> SUFFICES ASSUME IInv, [Next]_vars PROVE IInv'
  OBVIOUS
<1>1. ServerOK' /\ TabsTyped'
  BY TypeStep
<1>2. TypeOK'
  BY <1>1 DEF TypeOK, ServerOK, TabsTyped, Requests
<1>3. LockHeld'
  <2>1. (queue \in Seq(Requests))' =>
           (LockHeld' <=> Once(queue)' /\ (\A b \in Tabs : LockOf(b))')
    BY LockHeldByTab, PTL
  <2>2. QED
    BY <1>1, <2>1, LockStep DEF TabsTyped
<1>4. QED
  BY <1>2, <1>3, CallsWaitStep, HandedOutStep, LeavesStep, RestoresStep, ClosedStep, KeepsStep
  DEF IInv

\* Every tab is always where the code allows it to be, whatever was interrupted:
\* the lock is held by the one tab that believes it has it, a call waits for a
\* token only where one is being got, and nothing is on its way that would bring
\* an ended session back (withRefreshLock, tryRefresh, signOut, startSession).
THEOREM TabsConsistent == Spec => []IInv
<1>1. Init => IInv
  BY IInvInit
<1>2. IInv /\ [Next]_vars => IInv'
  BY IInvStep
<1>3. QED
  BY <1>1, <1>2, PTL DEF Spec

\* A step does not bring back what a tab has left.
LEMMA SignOutStandsStep ==
  ASSUME IInv, SignOutStands, [Next]_vars PROVE SignOutStands'
<1> USE Known
<1> DEFINE Gone(b, s) == page'[b].token # s /\ s \notin SignInOf(cookie')
<1>1. ASSUME NEW b \in Tabs, NEW s \in SignIns, <<b, s>> \in closed PROVE Gone(b, s)
  <2>1. /\ page[b].token # s /\ s \notin SignInOf(cookie) /\ status[s] = "ended"
        /\ ~ (refresh[b].phase = "arrived" /\ refresh[b].answer = "ok"
                /\ s \in SignInOf(refresh[b].cookie))
    <3>1. page[b].token # s
      BY <1>1 DEF SignOutStands
    <3>2. s \in {x[2] : x \in closed}
      BY <1>1
    <3>3. s \notin SignInOf(cookie)
      BY <3>2 DEF SignOutStands
    <3>4. QED
      BY <1>1, <3>1, <3>3 DEF ClosedIsOver
  <2>2. s \notin SignInOf(cookie')
    BY <2>1, CookieKinds, CookieFacts
  <2>3. CASE page'[b] = page[b]
    BY <2>1, <2>2, <2>3
  <2>4. CASE page'[b] # page[b]
    <3>1. ByTab(b)
      BY <2>4, StepKinds, ServerAlone, OthersStay DEF vars
    <3>2. QED
      BY <2>1, <2>2, <3>1, TokenFacts
  <2>5. QED
    BY <2>3, <2>4
<1>2. ASSUME NEW b \in Tabs, AnswerLogout(b),
             NEW s \in SignInOf(out[b].cookie) \intersect {out[b].left}
      PROVE  Gone(b, s)
  <2>1. /\ out[b].phase = "sent" /\ cookie' = NoCookie
        /\ page'[b].token = page[b].token
    BY <1>2 DEF AnswerLogout, SignedOut, TabsTyped, Page
  <2>2. s \in SignIns /\ LeavesOf(b)
    BY <1>2, LeavesByTab, CookieFacts DEF TabsTyped, Out
  <2>3. QED
    BY <1>2, <2>1, <2>2, CookieFacts DEF LeavesOf
<1>3. \A x \in closed' : Gone(x[1], x[2])
  <2>1. \A x \in closed : x[1] \in Tabs /\ x[2] \in SignIns /\ x = <<x[1], x[2]>>
    BY DEF TabsTyped
  <2>2. QED
    BY <1>1, <1>2, <2>1, NewlyClosed
<1>4. \A b \in Tabs : <<b, page'[b].token>> \notin closed'
  BY <1>3
<1>5. SignInOf(cookie') \intersect {x[2] : x \in closed'} = {}
  BY <1>3
<1>6. QED
  BY <1>4, <1>5 DEF SignOutStands, SignInOf

\* "Late refresh responses and private responses from an ended session never
\* restore it" (docs/auth.md), with any number of tabs: once the server has ended
\* the sign-in a tab left, that tab does not get its token back, nor the browser
\* its cookie.
THEOREM SignOutIsFinal == Spec => []SignOutStands
<1>1. Init => SignOutStands
  BY DEF Init, SignOutStands
<1>2. IInv /\ SignOutStands /\ [Next]_vars => SignOutStands'
  BY SignOutStandsStep
<1>3. QED
  BY <1>1, <1>2, TabsConsistent, PTL DEF Spec

LEMMA ShownHasTokenStep ==
  ASSUME IInv, ShownHasToken, [Next]_vars PROVE ShownHasToken'
<1> USE Known
<1>p. SUFFICES ASSUME NEW b \in Tabs PROVE page'[b].user # None => page'[b].token # None
  BY DEF ShownHasToken
<1>0. /\ page[b] \in Page /\ LeavesOf(b) /\ RestoresOf(b)
      /\ page[b].user # None => page[b].token # None
  BY LeavesByTab DEF TabsTyped, ShownHasToken, RestoresWithToken, RestoresOf
<1>1. CASE page'[b] = page[b]
  BY <1>0, <1>1
<1>2. CASE page'[b] # page[b]
  <2>0. ByTab(b)
    BY <1>2, StepKinds, ServerAlone, OthersStay DEF vars
  <2>d. ASSUME page'[b] = Dropped(page[b]), ~ page[b].signingOut PROVE page'[b].user = None
    BY <2>d, DroppedFacts
  <2>1. CASE Settle(b)
    <3>1. CASE refresh[b].answer = "ok"
      <4>1. refresh[b].cookie \in Cookies
        BY <2>1, <3>1 DEF Settle, HandedOut, TabsTyped, Refresh
      <4>2. page'[b].token = refresh[b].cookie[1] /\ refresh[b].cookie[1] \in SignIns
        BY <1>0, <2>1, <3>1, <4>1, CookieFacts DEF Settle, TabsTyped, Page
      <4>3. QED
        BY <4>2
    <3>2. CASE refresh[b].answer = "refused"
      <4>1. page'[b] = Dropped(page[b]) /\ refresh[b].phase = "arrived"
        BY <2>1, <3>2 DEF Settle, TabsTyped
      <4>2. ~ page[b].signingOut
        BY <1>0, <3>2, <4>1 DEF LeavesOf, RestoresOf
      <4>3. QED
        BY <2>d, <4>1, <4>2
    <3>3. CASE refresh[b].answer \notin {"ok", "refused"}
      <4>1. page'[b] = Dropped(page[b]) /\ call[b].restore
        BY <1>2, <2>1, <3>3 DEF Settle, AsksForProfile, TabsTyped
      <4>2. ~ page[b].signingOut
        BY <1>0, <4>1 DEF LeavesOf, RestoresOf
      <4>3. QED
        BY <2>d, <4>1, <4>2
    <3>4. QED
      BY <3>1, <3>2, <3>3
  <2>2. CASE EndCall(b) \/ UnauthorisedAgain(b)
    <3>1. /\ page'[b] = Dropped(page[b])
          /\ call[b].restore \/ call[b].phase = "again"
      BY <1>2, <2>2 DEF EndCall, UnauthorisedAgain, TabsTyped
    <3>2. ~ page[b].signingOut
      BY <1>0, <3>1 DEF LeavesOf, RestoresOf
    <3>3. QED
      BY <2>d, <3>1, <3>2
  <2>3. CASE Restored(b)
    <3>1. page'[b].token = page[b].token /\ page[b].token # None
      BY <1>0, <2>3 DEF Restored, RestoresOf, TabsTyped, Page
    <3>2. QED
      BY <3>1
  <2>4. ASSUME NEW s \in SignIns, NEW remember \in RememberMe, SignIn(b, s, remember)
        PROVE  page'[b].token # None
    <3>1. page'[b].token = s
      BY <1>0, <2>4 DEF SignIn, TabsTyped, Page
    <3>2. QED
      BY <3>1
  <2>5. CASE AnswerLogout(b) \/ FailLogout(b)
    <3>1. page'[b].token = page[b].token /\ page'[b].user = page[b].user
      BY <1>0, <2>5 DEF AnswerLogout, FailLogout, SignedOut, TabsTyped, Page
    <3>2. QED
      BY <1>0, <3>1
  <2>6. CASE SignOut(b) \/ Receive(b) \/ \E reload, link \in BOOLEAN : Open(b, reload, link)
    <3>1. \A x \in BOOLEAN : /\ [Guest EXCEPT !.signingOut = x].user = None
                            /\ [Guest EXCEPT !.link = x].user = None
      BY DEF Guest
    <3>2. CASE SignOut(b)
      BY <3>1, <3>2 DEF SignOut, Close, TabsTyped
    <3>3. CASE Receive(b)
      BY <1>2, <3>1, <3>3 DEF Receive, Close, TabsTyped
    <3>4. CASE \E reload, link \in BOOLEAN : Open(b, reload, link)
      BY <3>1, <3>4 DEF Open, TabsTyped
    <3>5. QED
      BY <2>6, <3>2, <3>3, <3>4
  <2>7. CASE SendRefresh(b) \/ AnswerRefresh(b) \/ LimitRefresh(b) \/ FailRefresh(b)
             \/ Unauthorised(b) \/ SendLogout(b) \/ StartCall(b)
    BY <1>2, <2>7 DEF SendRefresh, AnswerRefresh, LimitRefresh, FailRefresh, Unauthorised,
       SendLogout, StartCall
  <2>8. QED
    BY <2>0, <2>1, <2>2, <2>3, <2>4, <2>5, <2>6, <2>7 DEF ByTab, Step
<1>3. QED
  BY <1>1, <1>2

\* A tab never shows a user with no access token behind it, however a sign-out, a
\* restore and a refused refresh of it meet (AuthProvider's token listener).
THEOREM NoUserWithoutToken == Spec => []ShownHasToken
<1>1. Init => ShownHasToken
  BY DEF Init, ShownHasToken, Guest
<1>2. IInv /\ ShownHasToken /\ [Next]_vars => ShownHasToken'
  BY ShownHasTokenStep
<1>3. QED
  BY <1>1, <1>2, TabsConsistent, PTL DEF Spec

\* A request for a token leaves the way only by an answer, a failure or its page.
LEMMA SentEnds ==
  ASSUME IInv, NEW b \in Tabs, ByTab(b),
         refresh[b].phase = "sent", refresh'[b].phase # "sent"
  PROVE  Unheard(refresh[b].cookie)
<1> USE Known
<1>0. refresh[b] \in Refresh
  BY DEF TabsTyped
<1>1. CASE AnswerRefresh(b) \/ LimitRefresh(b) \/ FailRefresh(b)
  BY <1>1 DEF AnswerRefresh, LimitRefresh, FailRefresh, Unheard
<1>2. CASE \E reload, link \in BOOLEAN : Open(b, reload, link)
  BY <1>2, OpenedServer
<1>3. CASE SendRefresh(b) \/ Settle(b)
  BY <1>3 DEF SendRefresh, Settle
<1>4. CASE EndCall(b) \/ UnauthorisedAgain(b) \/ SignOut(b) \/ Receive(b)
  <2>1. refresh'[b] \in {refresh[b], RefreshEnded(b)}
    BY <1>4 DEF EndCall, UnauthorisedAgain, SignOut, Receive, Close, TabsTyped
  <2>2. QED
    BY <2>1, EndedKinds
<1>5. CASE Unauthorised(b)
  BY <1>5 DEF Unauthorised, JoinRefresh
<1>6. CASE Restored(b) \/ SendLogout(b) \/ AnswerLogout(b) \/ FailLogout(b) \/ StartCall(b)
           \/ \E s \in SignIns, remember \in RememberMe : SignIn(b, s, remember)
  BY <1>6 DEF Restored, SendLogout, AnswerLogout, FailLogout, StartCall, SignIn
<1>7. QED
  BY <1>1, <1>2, <1>3, <1>4, <1>5, <1>6 DEF ByTab, Step

\* The lock and the retry keep the server from taking a tab of the browser for a
\* thief: a refresh ends a live sign-in only when an earlier one of that sign-in
\* was given up with its answer unheard (withRefreshLock, requestRefresh).
THEOREM AlarmsAreDeserved == Spec => AlarmsOnlyAbandoned
<1>1. ASSUME IInv, [Next]_vars
      PROVE  \A s \in SignIns :
               /\ status[s] = "open" /\ status'[s] = "ended"
               /\ \E b \in Tabs : refresh[b].phase = "sent" /\ refresh'[b].phase # "sent"
               => s \in abandoned
  <2>1. SUFFICES ASSUME NEW s \in SignIns, status[s] = "open", status'[s] = "ended",
                        NEW b \in Tabs, refresh[b].phase = "sent", refresh'[b].phase # "sent"
                 PROVE  s \in abandoned
    OBVIOUS
  <2>2. ByTab(b)
    BY <1>1, <2>1, StepKinds, ServerAlone, OthersStay DEF vars
  <2>3. Unheard(refresh[b].cookie) /\ refresh[b].cookie \in Cookies \union {NoCookie} /\ ServerOK
    BY <1>1, <2>1, <2>2, SentEnds, Known DEF TabsTyped, Refresh
  <2>4. s \in SignInOf(refresh[b].cookie)
    BY <2>1, <2>3, UnheardFacts DEF ServerMoves
  <2>5. /\ refresh[b].cookie[2] < newest[s]
        /\ ~ (refresh[b].cookie[2] + 1 = newest[s] /\ s \in inGrace)
    BY <2>1, <2>3, <2>4, UnheardFacts DEF server
  <2>6. Asks(b) /\ refresh[b].cookie[2] \in Nat /\ newest[s] \in Nat
    BY <1>1, <2>1, <2>3, <2>4, Known, KeepsByTab, CookieFacts DEF AtWork, ServerOK
  <2>7. QED
    BY <2>1, <2>4, <2>5, <2>6 DEF Asks
<1>2. QED
  BY <1>1, TabsConsistent, PTL DEF Spec, AlarmsOnlyAbandoned
-----------------------------------------------------------------------------
(* What reaches the server is what SignIns promises. *)

\* Sign-ins the server only ends.
LEMMA EndsAsPromised ==
  ASSUME IInv, NEW those, AtMostOne(those), ServerMoves(those)
  PROVE  Promised!Next \/ UNCHANGED status
<1> USE Known
<1> DEFINE ends == {s \in SignIns : status[s] = "open" /\ status'[s] = "ended"}
<1>1. status \in [SignIns -> {"never", "open", "ended"}]
      /\ status' \in [SignIns -> {"never", "open", "ended"}]
  BY DEF ServerMoves, ServerOK
<1>2. status' = [s \in SignIns |-> IF s \in ends THEN "ended" ELSE status[s]]
  BY <1>1 DEF ServerMoves
<1>3. ends \subseteq those
  BY <1>1 DEF ServerMoves
<1>4. CASE ends = {}
  <2>1. status' = status
    BY <1>1, <1>2, <1>4
  <2>2. QED
    BY <2>1
<1>5. CASE ends # {}
  <2>1. PICK u \in SignIns : ends = {u}
    BY <1>3, <1>5 DEF AtMostOne
  <2>2. Promised!Transact(u, {}, ends)
    BY <1>2, <2>1 DEF Promised!Transact
  <2>3. QED
    BY <2>2 DEF Promised!Next
<1>6. QED
  BY <1>4, <1>5

\* A sign-in by password opens one.
LEMMA OpensAsPromised ==
  ASSUME IInv, NEW b \in Tabs, NEW s \in SignIns, NEW remember \in RememberMe,
         SignIn(b, s, remember)
  PROVE  Promised!Next
<1> USE Known
<1>1. status \in [SignIns -> {"never", "open", "ended"}]
  BY DEF ServerOK
<1>2. status[s] = "never" /\ status' = [status EXCEPT ![s] = "open"]
  BY DEF SignIn
<1>3. Promised!Transact(s, {s}, {})
  BY <1>1, <1>2 DEF Promised!Transact
<1>4. QED
  BY <1>3 DEF Promised!Next

LEMMA StepAsPromised == IInv /\ [Next]_vars => [Promised!Next]_status
  BY ServerSteps, EndsAsPromised, OpensAsPromised

\* Whatever the tabs of a browser do, with their lock, their retries and answers that
\* nobody hears, the server's sign-ins move as SignIns promises: one at a time, each
\* opened once, never blinking, and never open again once ended (refresh_session,
\* logout, login as requestRefresh, signOut and acceptSession call them).
THEOREM TabsKeepThePromise == Spec => MovesAsPromised
<1>1. Init => Promised!Init
  BY DEF Init, Promised!Init
<1>2. QED
  BY <1>1, StepAsPromised, TabsConsistent, PTL DEF Spec, MovesAsPromised, Promised!Spec
=============================================================================
