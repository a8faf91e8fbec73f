----------------------------- MODULE LotteryProofs -----------------------------
(***************************************************************************)
(* Every lottery is decided once, by a request of its own, unless a winner *)
(* calls the contract when he is sent the pot; the pot is kept until then, *)
(* and the books of the asset balance, whoever calls what, for any number  *)
(* of players, lotteries, requests and calls within calls.                 *)
(***************************************************************************)
EXTENDS Lottery, BAC001Proofs

systemVars == <<vars, oracleVars, lotteryVars>>

-----------------------------------------------------------------------------
(* The oracle.                                                             *)

(* A request takes the next number and is open. *)
LEMMA RequestTypes ==
  ASSUME OracleTypeOK, Request
  PROVE  /\ OracleTypeOK' /\ requests' = requests + 1 /\ requests' \in 1..MaxRequests
         /\ validIds' = validIds \cup {requests'}
  <1>1. /\ requests \in 0..MaxRequests /\ requests < MaxRequests /\ MaxRequests \in Nat
        /\ requests' = requests + 1 /\ validIds' = validIds \cup {requests'}
        /\ resultMap' = resultMap
    BY OracleAssumption DEF OracleTypeOK, Request
  <1>2. requests' \in 1..MaxRequests /\ 1..requests \subseteq 1..requests' /\ requests' \in 1..requests'
    BY <1>1
  <1>3. validIds' \subseteq 1..requests'
    BY <1>1, <1>2, Zenon DEF OracleTypeOK
  <1> QED BY <1>1, <1>2, <1>3 DEF OracleTypeOK, RequestIds

(* The oracle's own steps: a new request is open, an answered one no more.  *)
LEMMA OracleTypes ==
  ASSUME OracleTypeOK, OracleNext
  PROVE  /\ OracleTypeOK' /\ requests <= requests'
         /\ validIds' \subseteq validIds \cup {requests + 1}
  <1>1. CASE Request
    BY <1>1, RequestTypes DEF OracleTypeOK
  <1>2. ASSUME NEW id \in validIds, NEW number \in Numbers, Callback(id, number)
        PROVE  /\ OracleTypeOK' /\ requests <= requests'
               /\ validIds' \subseteq validIds \cup {requests + 1}
    BY <1>2, OracleAssumption DEF Callback, OracleTypeOK, RequestIds
  <1> QED BY <1>1, <1>2 DEF OracleNext

-----------------------------------------------------------------------------
(* Draws.                                                                  *)

(* A lottery that may be drawn was started, and its request made; so was    *)
(* one whose winner is being called.                                        *)
LotteryMade ==
  /\ lotteryState # "CLOSED" \/ players # <<>> \/ pendingDraws # <<>> => lotteryId # 0
  /\ lotteryState = "PENDING" \/ (~withPot /\ players # <<>>) => requestId # 0

(* The request that will decide the current lottery was made.               *)
Requested == lotteryState = "PENDING" \/ (lotteryState = "OPEN" /\ ~withPot)

(* It is newer than those that decided one, which were made before.         *)
RequestsAreUsed ==
  /\ Requested => requestId # 0
  /\ \A i \in 1..Len(drawn) :
       /\ drawn[i].requestId <= requestId
       /\ Requested => drawn[i].requestId < requestId

(* pickWinner does not look at the state of a lottery without a pot, but    *)
(* it finds no players when it is closed.                                   *)
ClosedHasNoPlayers ==
  /\ lotteryState = "CLOSED" => players = <<>>
  /\ lotteryState = "PENDING" => withPot

(* One call waits for its winner at most, and it will decide the lottery as *)
(* it would have when it was made.                                          *)
OneWaits ==
  pendingDraws # <<>> =>
    /\ Len(pendingDraws) = 1 /\ lotteryState = "PENDING"
    /\ pendingDraws[1].requestId = requestId /\ requestId \notin validIds

(* What holds as long as nobody called the contract while a call waited.    *)
OnceInv == RequestsAreUsed /\ ClosedHasNoPlayers /\ OneWaits /\ DrawnOnce

DrawInv == LotteryTypeOK /\ LotteryMade /\ (~drawReentered => OnceInv)

(* The history of calls: a call while another waits is remembered.          *)
Called == drawReentered' = (drawReentered \/ pendingDraws # <<>>)

(* The types in the form arithmetic needs. *)
LEMMA DrawTypes ==
  ASSUME LotteryTypeOK
  PROVE  /\ drawn \in Seq(Draws) /\ Len(drawn) \in Nat
         /\ requests \in Nat /\ requestId \in 0..requests /\ lotteryId \in Nat
         /\ MaxLotteries \in Nat /\ MaxRequests \in Nat
         /\ \A i \in 1..Len(drawn) : drawn[i].requestId \in Nat
  <1>1. drawn \in Seq(Draws) /\ requests \in Nat /\ requestId \in 0..requests /\ lotteryId \in Nat
    BY OracleAssumption DEF LotteryTypeOK, OracleTypeOK
  <1>2. \A i \in 1..Len(drawn) : drawn[i] \in Draws
    BY <1>1
  <1>3. \A i \in 1..Len(drawn) : drawn[i].requestId \in Nat
    BY <1>2, OracleAssumption DEF Draws
  <1> QED BY <1>1, <1>3, OracleAssumption, TermsAssumption

(* No lottery has been drawn. *)
LEMMA InitDrawInv == LotteryInit => DrawInv
  <1> SUFFICES ASSUME LotteryInit PROVE DrawInv
    OBVIOUS
  <1>1. /\ OracleTypeOK /\ 0 \in 0..MaxLotteries
    BY OracleAssumption, TermsAssumption DEF LotteryInit, OracleInit, OracleTypeOK
  <1>2. /\ <<>> \in Seq(Users) /\ <<>> \in Seq(Draws) /\ <<>> \in Seq(PendingDraws)
        /\ Len(<<>>) = 0
    OBVIOUS
  <1>3. LotteryTypeOK
    <2>1. /\ withPot \in BOOLEAN /\ lotteryState = "CLOSED" /\ players = <<>> /\ depositAmount = 0
          /\ lotteryId = 0 /\ requestId = 0 /\ requests = 0 /\ drawn = <<>>
          /\ pendingDraws = <<>> /\ drawReentered = FALSE
      BY DEF LotteryInit, OracleInit
    <2>2. 0 \in 0..requests /\ 0 \in Nat
      BY <2>1
    <2>3. /\ players \in Seq(Users) /\ drawn \in Seq(Draws) /\ pendingDraws \in Seq(PendingDraws)
          /\ lotteryId \in 0..MaxLotteries /\ requestId \in 0..requests /\ depositAmount \in Nat
      BY <1>1, <1>2, <2>1, <2>2, Zenon
    <2> QED BY <1>1, <2>1, <2>3 DEF LotteryTypeOK
  <1>4. LotteryMade /\ OnceInv
    BY <1>2 DEF LotteryInit, LotteryMade, OnceInv, RequestsAreUsed, ClosedHasNoPlayers, OneWaits, DrawnOnce,
                Requested
  <1> QED BY <1>3, <1>4 DEF DrawInv

(* What users ask of the oracle does not matter here.                       *)
LEMMA OracleDrawInv ==
  ASSUME DrawInv, OracleNext, UNCHANGED lotteryVars
  PROVE  DrawInv'
  <1>1. /\ OracleTypeOK' /\ requests <= requests'
        /\ validIds' \subseteq validIds \cup {requests + 1}
    BY OracleTypes DEF DrawInv, LotteryTypeOK
  <1>2. UNCHANGED <<withPot, lotteryState, players, depositAmount, lotteryId, requestId, drawn,
                    pendingDraws, drawReentered>>
    BY DEF lotteryVars, gameVars
  <1>3. requestId' \in 0..requests'
    BY <1>1, <1>2, OracleAssumption DEF DrawInv, LotteryTypeOK, OracleTypeOK
  <1>4. LotteryTypeOK' /\ LotteryMade'
    BY <1>1, <1>2, <1>3 DEF DrawInv, LotteryTypeOK, LotteryMade
  <1>5. ASSUME ~drawReentered PROVE OnceInv'
    <2>1. OnceInv
      BY <1>5 DEF DrawInv
    <2>2. \A i \in 1..Len(drawn) : drawn[i].requestId # requests + 1
      BY <2>1, DrawTypes DEF DrawInv, OnceInv, RequestsAreUsed
    <2>3. \A i \in 1..Len(drawn) : drawn[i].requestId \notin validIds'
      BY <1>1, <1>5, <2>1, <2>2 DEF OnceInv, DrawnOnce
    <2>4. requestId # requests + 1
      BY DrawTypes DEF DrawInv
    <2>5. OneWaits'
      BY <1>1, <1>2, <2>1, <2>4 DEF OnceInv, OneWaits
    <2>6. DrawnOnce'
      BY <1>2, <1>5, <2>1, <2>3 DEF OnceInv, DrawnOnce
    <2> QED BY <1>2, <2>1, <2>5, <2>6
            DEF OnceInv, RequestsAreUsed, ClosedHasNoPlayers, Requested
  <1> QED BY <1>2, <1>4, <1>5 DEF DrawInv

(* A lottery's own request is newer than all before.                        *)
LEMMA NewRequest ==
  ASSUME LotteryTypeOK, Request, requestId' = requests', drawn' = drawn
  PROVE  /\ OracleTypeOK' /\ requestId' \in 0..requests' /\ requestId' # 0
         /\ ~drawReentered /\ OnceInv =>
              /\ RequestsAreUsed'
              /\ \A i \in 1..Len(drawn') : drawn'[i].requestId \notin validIds'
  <1>1. /\ OracleTypeOK' /\ requests' = requests + 1 /\ requests' \in 1..MaxRequests
        /\ validIds' = validIds \cup {requests'}
    BY RequestTypes DEF LotteryTypeOK
  <1>2. requests \in Nat /\ requests' # 0 /\ requestId' \in 0..requests'
    BY <1>1, DrawTypes
  <1>3. ASSUME ~drawReentered, OnceInv
        PROVE  /\ RequestsAreUsed'
               /\ \A i \in 1..Len(drawn') : drawn'[i].requestId \notin validIds'
    <2>1. \A i \in 1..Len(drawn) : drawn[i].requestId \in Nat /\ drawn[i].requestId <= requests
      BY <1>3, DrawTypes DEF OnceInv, RequestsAreUsed
    <2>2. RequestsAreUsed'
      BY <1>1, <1>2, <2>1 DEF RequestsAreUsed
    <2>3. \A i \in 1..Len(drawn) : drawn[i].requestId # requests'
      BY <1>1, <1>2, <2>1
    <2>4. \A i \in 1..Len(drawn') : drawn'[i].requestId \notin validIds'
      BY <1>1, <1>3, <2>3 DEF OnceInv, DrawnOnce
    <2> QED BY <2>2, <2>4
  <1> QED BY <1>1, <1>2, <1>3

(* Lists of players are sequences of users. *)
LEMMA PlayersAreUsers ==
  ASSUME NEW list \in PlayerLists PROVE list \in Seq(Users)
  <1>1. PICK n \in 0..MaxPlayers : list \in [1..n -> Users]
    BY DEF PlayerLists
  <1>2. n \in Nat
    BY <1>1, TermsAssumption
  <1> QED BY <1>1, <1>2

(* A new lottery has the next number and no draw. *)
LEMMA StartDrawInv ==
  ASSUME DrawInv, Called, NEW list \in PlayerLists, NEW amount \in Amounts,
         StartNewLottery(list, amount)
  PROVE  DrawInv'
  <1>1. /\ lotteryState = "CLOSED" /\ lotteryState' = "OPEN" /\ lotteryId < MaxLotteries
        /\ lotteryId' = lotteryId + 1 /\ drawn' = drawn /\ withPot' = withPot
        /\ players' = list /\ pendingDraws' = pendingDraws
        /\ drawReentered' = (drawReentered \/ pendingDraws # <<>>)
    BY DEF StartNewLottery, Called
  <1>2. /\ lotteryId' \in 0..MaxLotteries /\ lotteryId' # 0
        /\ list \in Seq(Users) /\ amount \in Nat
        /\ drawReentered' \in BOOLEAN
    BY <1>1, PlayersAreUsers, TermsAssumption DEF DrawInv, LotteryTypeOK
  <1>3. ASSUME ~drawReentered'
        PROVE  /\ ~drawReentered /\ OnceInv /\ ClosedHasNoPlayers' /\ OneWaits'
               /\ Len(drawn') = lotteryId' - 1
               /\ \A i \in 1..Len(drawn') :
                    /\ drawn'[i].lotteryId = i
                    /\ \A j \in 1..i - 1 : drawn'[j].requestId < drawn'[i].requestId
    <2>1. ~drawReentered /\ OnceInv /\ pendingDraws = <<>>
      BY <1>1, <1>3 DEF DrawInv
    <2>2. ClosedHasNoPlayers' /\ OneWaits'
      BY <1>1, <2>1 DEF ClosedHasNoPlayers, OneWaits
    <2> QED BY <1>1, <2>1, <2>2, DrawTypes DEF DrawInv, OnceInv, DrawnOnce
  <1>4. CASE withPot
    <2>1. depositAmount' = amount /\ UNCHANGED <<requests, validIds, resultMap, requestId>>
      BY <1>4 DEF StartNewLottery, oracleVars
    <2>2. LotteryTypeOK' /\ LotteryMade'
      BY <1>1, <1>2, <1>4, <2>1
      DEF DrawInv, LotteryTypeOK, OracleTypeOK, RequestIds, LotteryMade
    <2>3. ASSUME ~drawReentered' PROVE OnceInv'
      <3>1. RequestsAreUsed'
        BY <1>1, <1>3, <1>4, <2>1, <2>3 DEF OnceInv, RequestsAreUsed, Requested
      <3>2. DrawnOnce'
        BY <1>1, <1>3, <2>1, <2>3 DEF OnceInv, DrawnOnce
      <3> QED BY <1>3, <2>3, <3>1, <3>2 DEF OnceInv
    <2> QED BY <2>2, <2>3 DEF DrawInv
  <1>5. CASE ~withPot
    <2>1. Request /\ requestId' = requests' /\ depositAmount' = depositAmount
      BY <1>5 DEF StartNewLottery
    <2>2. /\ OracleTypeOK' /\ requestId' \in 0..requests' /\ requestId' # 0
          /\ ~drawReentered /\ OnceInv =>
               /\ RequestsAreUsed'
               /\ \A i \in 1..Len(drawn') : drawn'[i].requestId \notin validIds'
      BY <1>1, <2>1, NewRequest DEF DrawInv
    <2>3. LotteryTypeOK' /\ LotteryMade'
      BY <1>1, <1>2, <2>1, <2>2 DEF DrawInv, LotteryTypeOK, LotteryMade
    <2>4. ASSUME ~drawReentered' PROVE OnceInv'
      BY <1>1, <1>3, <2>2, <2>4 DEF OnceInv, DrawnOnce
    <2> QED BY <2>3, <2>4 DEF DrawInv
  <1> QED BY <1>4, <1>5

(* The request of a lottery is made after those of all earlier draws. *)
LEMMA StopDrawInv ==
  ASSUME DrawInv, Called, StopDeposit
  PROVE  DrawInv'
  <1>1. /\ lotteryState = "OPEN" /\ lotteryState' = "PENDING" /\ withPot
        /\ Request /\ requestId' = requests'
        /\ UNCHANGED <<withPot, players, depositAmount, lotteryId, drawn, pendingDraws>>
        /\ drawReentered' = (drawReentered \/ pendingDraws # <<>>)
    BY DEF StopDeposit, Called
  <1>2. /\ OracleTypeOK' /\ requestId' \in 0..requests' /\ requestId' # 0
        /\ ~drawReentered /\ OnceInv =>
             /\ RequestsAreUsed'
             /\ \A i \in 1..Len(drawn') : drawn'[i].requestId \notin validIds'
    BY <1>1, NewRequest DEF DrawInv
  <1>3. LotteryTypeOK' /\ LotteryMade'
    BY <1>1, <1>2 DEF DrawInv, LotteryTypeOK, LotteryMade
  <1>4. ASSUME ~drawReentered' PROVE OnceInv'
    <2>1. ~drawReentered /\ OnceInv /\ pendingDraws = <<>>
      BY <1>1, <1>4 DEF DrawInv
    <2>2. ClosedHasNoPlayers' /\ OneWaits'
      BY <1>1, <2>1 DEF ClosedHasNoPlayers, OneWaits
    <2>3. DrawnOnce'
      BY <1>1, <1>2, <2>1 DEF OnceInv, DrawnOnce
    <2> QED BY <1>2, <2>1, <2>2, <2>3 DEF OnceInv
  <1> QED BY <1>3, <1>4 DEF DrawInv

(* Who is drawn is one of the players.                                     *)
LEMMA WinnerIsPlayer ==
  ASSUME LotteryTypeOK, players # <<>>
  PROVE  Winner \in Users
  <1>1. players \in Seq(Users) /\ players # <<>> /\ resultMap[requestId] \in Nat
    BY OracleAssumption DEF LotteryTypeOK, OracleTypeOK, RequestIds
  <1>2. Len(players) \in Nat \ {0}
    BY <1>1
  <1>3. (resultMap[requestId] % Len(players)) + 1 \in 1..Len(players)
    BY <1>1, <1>2
  <1> QED BY <1>1, <1>3 DEF Winner

(* A draw is of a lottery that was started, by a request that was made.     *)
LEMMA EndTypes ==
  ASSUME DrawInv, NEW winner \in Users, NEW request \in 1..MaxRequests, lotteryId # 0,
         EndLottery(winner, request), UNCHANGED oracleVars,
         pendingDraws' \in Seq(PendingDraws), drawReentered' \in BOOLEAN
  PROVE  LotteryTypeOK' /\ LotteryMade'
  <1> DEFINE draw == [lotteryId |-> lotteryId, winner |-> winner, requestId |-> request]
  <1>1. draw \in Draws
    <2>1. lotteryId \in 1..MaxLotteries
      BY TermsAssumption DEF DrawInv, LotteryTypeOK
    <2> QED BY <2>1 DEF Draws
  <1>2. /\ drawn' = Append(drawn, draw)
        /\ players' = <<>> /\ lotteryState' = "CLOSED"
        /\ UNCHANGED <<withPot, depositAmount, lotteryId, requestId, requests, validIds, resultMap>>
    BY DEF EndLottery, oracleVars
  <1> HIDE DEF draw
  <1>3. drawn' \in Seq(Draws) /\ players' \in Seq(Users)
    BY <1>1, <1>2 DEF DrawInv, LotteryTypeOK
  <1>4. LotteryTypeOK'
    BY <1>2, <1>3 DEF DrawInv, LotteryTypeOK, OracleTypeOK, RequestIds
  <1> QED BY <1>2, <1>4 DEF LotteryMade

(* It is the only one of the lottery, whose request was answered.           *)
LEMMA EndOnce ==
  ASSUME LotteryTypeOK, OnceInv, ~drawReentered, NEW winner,
         EndLottery(winner, requestId), UNCHANGED oracleVars, pendingDraws' = <<>>,
         requestId \notin validIds, lotteryState # "CLOSED", Requested
  PROVE  OnceInv'
  <1> DEFINE draw == [lotteryId |-> lotteryId, winner |-> winner, requestId |-> requestId]
  <1>1. /\ drawn' = Append(drawn, draw)
        /\ players' = <<>> /\ lotteryState' = "CLOSED"
        /\ UNCHANGED <<withPot, depositAmount, lotteryId, requestId, requests, validIds, resultMap>>
    BY DEF EndLottery, oracleVars
  <1>2. draw.lotteryId = lotteryId /\ draw.requestId = requestId
    OBVIOUS
  <1> HIDE DEF draw
  <1>3. /\ Len(drawn) \in Nat /\ Len(drawn') = Len(drawn) + 1
        /\ drawn'[Len(drawn) + 1] = draw
        /\ \A i \in 1..Len(drawn) : drawn'[i] = drawn[i]
    BY <1>1, DrawTypes
  <1>4. ClosedHasNoPlayers' /\ OneWaits'
    BY <1>1 DEF ClosedHasNoPlayers, OneWaits
  <1>5. RequestsAreUsed'
    <2> SUFFICES ASSUME NEW i \in 1..Len(drawn')
                 PROVE  drawn'[i].requestId <= requestId
      BY <1>1 DEF RequestsAreUsed, Requested
    <2>1. CASE i = Len(drawn) + 1
      BY <1>2, <1>3, <2>1, DrawTypes
    <2>2. CASE i \in 1..Len(drawn)
      BY <1>3, <2>2 DEF OnceInv, RequestsAreUsed
    <2> QED BY <1>3, <2>1, <2>2
  <1>6. DrawnOnce'
    <2>1. Len(drawn') = lotteryId'
      BY <1>1, <1>3, DrawTypes DEF OnceInv, DrawnOnce
    <2>2. ASSUME NEW i \in 1..Len(drawn')
          PROVE  /\ drawn'[i].lotteryId = i
                 /\ drawn'[i].requestId \notin validIds'
                 /\ \A j \in 1..i - 1 : drawn'[j].requestId < drawn'[i].requestId
      <3>1. CASE i = Len(drawn) + 1
        <4>1. drawn'[i].lotteryId = i /\ drawn'[i].requestId = requestId
          BY <1>2, <1>3, <3>1, DrawTypes DEF OnceInv, DrawnOnce
        <4>2. \A j \in 1..i - 1 : drawn'[j] = drawn[j] /\ drawn[j].requestId < requestId
          BY <1>3, <3>1 DEF OnceInv, RequestsAreUsed
        <4> QED BY <1>1, <4>1, <4>2
      <3>2. CASE i \in 1..Len(drawn)
        BY <1>1, <1>3, <3>2 DEF OnceInv, DrawnOnce
      <3> QED BY <1>3, <3>1, <3>2
    <2> QED BY <1>1, <2>1, <2>2 DEF DrawnOnce
  <1> QED BY <1>4, <1>5, <1>6 DEF OnceInv

(* A draw in one go, when no winner calls the contract.                     *)
LEMMA PickDrawInv ==
  ASSUME DrawInv, Called, PickWinner
  PROVE  DrawInv'
  <1>1. /\ requestId \notin validIds /\ players # <<>>
        /\ withPot => lotteryState = "PENDING"
        /\ EndLottery(Winner, requestId)
        /\ UNCHANGED oracleVars /\ pendingDraws' = pendingDraws
        /\ drawReentered' = (drawReentered \/ pendingDraws # <<>>)
    BY DEF PickWinner, MayPick, CheckIdFulfilled, Called
  <1>2. Winner \in Users
    BY <1>1, WinnerIsPlayer DEF DrawInv
  <1>3. requestId \in 1..MaxRequests /\ lotteryId # 0
    BY <1>1, OracleAssumption DEF DrawInv, LotteryMade, LotteryTypeOK, OracleTypeOK
  <1>4. LotteryTypeOK' /\ LotteryMade'
    BY <1>1, <1>2, <1>3, EndTypes DEF DrawInv, LotteryTypeOK
  <1>5. ASSUME ~drawReentered' PROVE OnceInv'
    <2>1. ~drawReentered /\ OnceInv /\ pendingDraws' = <<>>
      BY <1>1, <1>5 DEF DrawInv
    <2>2. lotteryState # "CLOSED" /\ Requested
      BY <1>1, <2>1 DEF DrawInv, LotteryTypeOK, OnceInv, ClosedHasNoPlayers, Requested
    <2> QED BY <1>1, <2>1, <2>2, EndOnce DEF DrawInv
  <1> QED BY <1>4, <1>5 DEF DrawInv

(* A draw that calls its winner before it is written.                       *)
LEMMA CallOutDrawInv ==
  ASSUME DrawInv, Called, PickWinnerCallsOut
  PROVE  DrawInv'
  <1> DEFINE call == [winner |-> Winner, requestId |-> requestId]
  <1>1. /\ withPot /\ lotteryState = "PENDING" /\ requestId \notin validIds /\ players # <<>>
        /\ pendingDraws' = <<call>> \o pendingDraws
        /\ UNCHANGED <<withPot, lotteryState, players, depositAmount, lotteryId, requestId, drawn>>
        /\ UNCHANGED <<requests, validIds, resultMap>>
        /\ drawReentered' = (drawReentered \/ pendingDraws # <<>>)
    BY DEF PickWinnerCallsOut, MayPick, CheckIdFulfilled, Called, oracleVars, gameVars
  <1>2. Winner \in Users
    BY <1>1, WinnerIsPlayer DEF DrawInv
  <1>3. requestId \in 1..MaxRequests /\ lotteryId # 0
    BY <1>1, OracleAssumption DEF DrawInv, LotteryMade, LotteryTypeOK, OracleTypeOK
  <1>4. call \in PendingDraws /\ call.requestId = requestId
    BY <1>2, <1>3 DEF PendingDraws
  <1> HIDE DEF call
  <1>5. pendingDraws \in Seq(PendingDraws) /\ drawReentered \in BOOLEAN
    BY DEF DrawInv, LotteryTypeOK
  <1>6. pendingDraws' \in Seq(PendingDraws)
    BY <1>1, <1>4, <1>5
  <1>7. LotteryTypeOK' /\ LotteryMade'
    BY <1>1, <1>3, <1>5, <1>6 DEF DrawInv, LotteryTypeOK, OracleTypeOK, RequestIds, LotteryMade
  <1>8. ASSUME ~drawReentered' PROVE OnceInv'
    <2>1. ~drawReentered /\ OnceInv /\ pendingDraws = <<>>
      BY <1>1, <1>8 DEF DrawInv
    <2>2. Len(pendingDraws') = 1 /\ pendingDraws'[1] = call
      BY <1>1, <1>4, <2>1
    <2>3. OneWaits'
      BY <1>1, <1>4, <2>2 DEF OneWaits
    <2>4. DrawnOnce'
      BY <1>1, <2>1 DEF OnceInv, DrawnOnce
    <2> QED BY <1>1, <2>1, <2>3, <2>4
            DEF OnceInv, RequestsAreUsed, ClosedHasNoPlayers, Requested
  <1> QED BY <1>7, <1>8 DEF DrawInv

(* The rest of it.                                                          *)
LEMMA ReturnDrawInv ==
  ASSUME DrawInv, PickWinnerReturns
  PROVE  DrawInv'
  <1> DEFINE call == Head(pendingDraws)
  <1>1. /\ pendingDraws # <<>> /\ EndLottery(call.winner, call.requestId)
        /\ pendingDraws' = Tail(pendingDraws)
        /\ UNCHANGED oracleVars /\ drawReentered' = drawReentered
    BY DEF PickWinnerReturns
  <1>2. pendingDraws \in Seq(PendingDraws) /\ drawReentered \in BOOLEAN
    BY DEF DrawInv, LotteryTypeOK
  <1>3. /\ call \in PendingDraws /\ call = pendingDraws[1]
        /\ pendingDraws' \in Seq(PendingDraws)
        /\ Len(pendingDraws) = 1 => pendingDraws' = <<>>
    BY <1>1, <1>2
  <1> HIDE DEF call
  <1>4. call.winner \in Users /\ call.requestId \in 1..MaxRequests
    BY <1>3 DEF PendingDraws
  <1>5. lotteryId # 0
    BY <1>1 DEF DrawInv, LotteryMade
  <1>6. LotteryTypeOK' /\ LotteryMade'
    BY <1>1, <1>2, <1>3, <1>4, <1>5, EndTypes
  <1>7. ASSUME ~drawReentered' PROVE OnceInv'
    <2>1. ~drawReentered /\ OnceInv
      BY <1>1, <1>7 DEF DrawInv
    <2>2. /\ pendingDraws' = <<>> /\ lotteryState = "PENDING"
          /\ call.requestId = requestId /\ requestId \notin validIds
      BY <1>1, <1>3, <2>1 DEF OnceInv, OneWaits
    <2>3. EndLottery(call.winner, requestId) /\ Requested /\ lotteryState # "CLOSED"
      BY <1>1, <2>2 DEF Requested
    <2> QED BY <1>1, <2>1, <2>2, <2>3, EndOnce DEF DrawInv
  <1> QED BY <1>6, <1>7 DEF DrawInv

(* Deposits change nothing of this; one made while a call waits is a call.  *)
LEMMA DepositDrawInv ==
  ASSUME DrawInv, Called, NEW caller \in Users, Deposit(caller)
  PROVE  DrawInv'
  <1>1. /\ UNCHANGED <<withPot, lotteryState, players, depositAmount, lotteryId, requestId, drawn,
                      pendingDraws, requests, validIds, resultMap>>
        /\ drawReentered' = (drawReentered \/ pendingDraws # <<>>)
    BY DEF Deposit, Called, gameVars, oracleVars
  <1>2. drawReentered' \in BOOLEAN
    BY <1>1 DEF DrawInv, LotteryTypeOK
  <1>3. LotteryTypeOK' /\ LotteryMade'
    BY <1>1, <1>2 DEF DrawInv, LotteryTypeOK, OracleTypeOK, RequestIds, LotteryMade
  <1>4. ASSUME ~drawReentered' PROVE OnceInv'
    BY <1>1, <1>4
    DEF DrawInv, OnceInv, RequestsAreUsed, ClosedHasNoPlayers, OneWaits, DrawnOnce, Requested
  <1> QED BY <1>3, <1>4 DEF DrawInv

(* Every step of lottery, oracle and assets keeps the invariant. *)
LEMMA NextDrawInv == DrawInv /\ [GroupNext]_systemVars => DrawInv'
  <1> SUFFICES ASSUME DrawInv, [GroupNext]_systemVars PROVE DrawInv'
    OBVIOUS
  <1>1. ASSUME UNCHANGED <<oracleVars, lotteryVars>> PROVE DrawInv'
    BY <1>1 DEF DrawInv, LotteryTypeOK, OracleTypeOK, RequestIds, LotteryMade, OnceInv,
                RequestsAreUsed, ClosedHasNoPlayers, OneWaits, DrawnOnce, Requested, oracleVars,
                lotteryVars, gameVars
  <1>2. CASE LotteryNext
    BY <1>2, StartDrawInv, StopDrawInv, PickDrawInv, CallOutDrawInv, ReturnDrawInv, DepositDrawInv
    DEF LotteryNext, Called
  <1>3. CASE OracleNext /\ UNCHANGED <<vars, lotteryVars>>
    BY <1>3, OracleDrawInv
  <1>4. CASE Next /\ UNCHANGED <<oracleVars, lotteryVars>>
    BY <1>1, <1>4
  <1>5. CASE UNCHANGED systemVars
    BY <1>1, <1>5 DEF systemVars
  <1> QED BY <1>2, <1>3, <1>4, <1>5 DEF GroupNext

(* It holds in every reachable state. *)
LEMMA SpecDrawInv == LotterySpec => []DrawInv
  BY InitDrawInv, NextDrawInv, PTL DEF LotterySpec, systemVars

(* The variables of a lottery hold values of their types, also when its     *)
(* contract is called while it calls a winner; who wins is one of those the *)
(* host named.                                                              *)
THEOREM LotteryTypes == LotterySpec => []LotteryTypeOK
  <1>1. DrawInv => LotteryTypeOK
    BY DEF DrawInv
  <1> QED BY SpecDrawInv, <1>1, PTL

(* Whatever is called in whatever order, but not by a winner who is being   *)
(* sent the pot, each lottery has one winner, drawn by an answered request  *)
(* that decided no other lottery.                                           *)
THEOREM EachLotteryIsDrawnOnce == LotterySpec => []DrawnOnce
  <1>1. DrawInv => DrawnOnce
    BY DEF DrawInv, OnceInv, DrawnOnce
  <1> QED BY SpecDrawInv, <1>1, PTL

-----------------------------------------------------------------------------
(* The pot.                                                                *)

(* The contract approves nobody as a spender of the pot.                    *)
PotInv == DrawInv /\ AssetInv /\ ApprovesNobody(This)

PotKept == balances'[This] >= balances[This]

(* The contract has approved nobody. *)
LEMMA InitPotInv == LotteryInit => PotInv
  <1> SUFFICES ASSUME LotteryInit PROVE PotInv
    OBVIOUS
  <1>1. Init
    BY DEF LotteryInit
  <1>2. ApprovesNobody(This)
    BY <1>1, PartiesAssumption DEF Init, ApprovesNobody
  <1> QED BY <1>1, <1>2, InitDrawInv, InitAssetInv DEF PotInv

(* What users do to the asset adds to the pot at most.                      *)
LEMMA AssetKeepsPot ==
  ASSUME PotInv, [Next]_vars
  PROVE  AssetInv' /\ ApprovesNobody(This)' /\ PotKept
  <1>1. This \in Accounts \ Users
    BY PartiesAssumption
  <1> QED BY <1>1, NextAssetInv DEF PotInv, Retains, PotKept

(* Deposits are added to the pot.                                           *)
LEMMA DepositKeepsPot ==
  ASSUME PotInv, NEW caller \in Users, Deposit(caller)
  PROVE  AssetInv' /\ ApprovesNobody(This)' /\ PotKept
  <1>1. This \in Accounts /\ caller \in Accounts /\ caller # This
    BY PartiesAssumption
  <1>2. depositAmount \in Nat
    BY DEF PotInv, DrawInv, LotteryTypeOK
  <1>3. SendFrom(This, caller, This, depositAmount) /\ UNCHANGED roleVars
    BY DEF Deposit, SendFrom
  <1>4. /\ BooksInv' /\ balances' = Sent(balances, caller, This, depositAmount)
        /\ depositAmount <= balances[caller]
        /\ \A a, b \in Accounts : a # caller => allowed'[a][b] = allowed[a][b]
    BY <1>1, <1>2, <1>3, SendFromBooks DEF PotInv, AssetInv
  <1>5. balances \in [Accounts -> Nat]
    BY DEF PotInv, AssetInv, BooksInv
  <1>6. PotKept
    BY <1>1, <1>2, <1>4, <1>5, SentBalance DEF PotKept
  <1>7. ApprovesNobody(This)'
    BY <1>1, <1>4 DEF PotInv, ApprovesNobody
  <1>8. RolesTypeOK'
    BY <1>3 DEF PotInv, AssetInv, RolesTypeOK, roleVars
  <1> QED BY <1>4, <1>6, <1>7, <1>8 DEF AssetInv

(* The pot is sent to the winner as it is, also a second time.              *)
LEMMA PayingKeepsBooks ==
  ASSUME PotInv, players # <<>>, Send(This, Winner, balances[This])
  PROVE  AssetInv' /\ ApprovesNobody(This)'
  <1>1. /\ balances \in [Accounts -> Nat] /\ This \in Accounts
        /\ allowed \in [Accounts -> [Accounts -> Nat]] /\ balances[This] \in Nat
    BY PartiesAssumption DEF PotInv, AssetInv, BooksInv
  <1>2. Winner \in Accounts
    BY WinnerIsPlayer, PartiesAssumption DEF PotInv, DrawInv
  <1>3. /\ balances' = Sent(balances, This, Winner, balances[This])
        /\ UNCHANGED <<roleVars, allowed, totalAmount>>
    BY DEF Send
  <1>4. BooksInv'
    <2>1. balances[This] <= balances[This] /\ allowed' \in [Accounts -> [Accounts -> Nat]]
      BY <1>1, <1>3
    <2> QED BY <1>1, <1>2, <1>3, <2>1, TransferBooks DEF PotInv, AssetInv
  <1> QED BY <1>3, <1>4 DEF PotInv, AssetInv, RolesTypeOK, roleVars, ApprovesNobody

(* Nothing is taken out of it by a step, unless that calls a winner.        *)
PotKeptUnlessDrawn ==
  lotteryState # "CLOSED" /\ lotteryState' # "CLOSED" /\ balances'[This] < balances[This] =>
    Len(pendingDraws') > Len(pendingDraws)

(* It is sent away only by a draw.                                          *)
LEMMA NextPotInv ==
  ASSUME PotInv, [GroupNext]_systemVars
  PROVE  PotInv' /\ PotKeptUnlessDrawn
  <1>1. DrawInv'
    BY NextDrawInv DEF PotInv
  <1>2. /\ balances \in [Accounts -> Nat] /\ This \in Accounts
        /\ AssetInv' => balances' \in [Accounts -> Nat]
    BY PartiesAssumption DEF PotInv, AssetInv, BooksInv
  <1>3. ASSUME AssetInv', PotKept PROVE PotKeptUnlessDrawn
    BY <1>2, <1>3 DEF PotKept, PotKeptUnlessDrawn
  <1>4. CASE [Next]_vars
    BY <1>1, <1>3, <1>4, AssetKeepsPot DEF PotInv
  <1>5. CASE \E caller \in Users : Deposit(caller)
    BY <1>1, <1>3, <1>5, DepositKeepsPot DEF PotInv
  <1>6. CASE PickWinner
    <2>1. lotteryState' = "CLOSED" /\ players # <<>>
      BY <1>6 DEF PickWinner, EndLottery
    <2>2. Send(This, Winner, balances[This]) \/ UNCHANGED vars
      BY <1>6 DEF PickWinner
    <2>3. CASE Send(This, Winner, balances[This])
      BY <1>1, <2>1, <2>3, PayingKeepsBooks DEF PotInv, PotKeptUnlessDrawn
    <2> QED BY <1>4, <2>2, <2>3
  <1>7. CASE PickWinnerCallsOut
    <2>1. /\ players # <<>> /\ Send(This, Winner, balances[This])
          /\ pendingDraws' = <<[winner |-> Winner, requestId |-> requestId]>> \o pendingDraws
      BY <1>7 DEF PickWinnerCallsOut
    <2>2. pendingDraws \in Seq(PendingDraws)
      BY DEF PotInv, DrawInv, LotteryTypeOK
    <2>3. Len(pendingDraws') > Len(pendingDraws)
      BY <2>1, <2>2
    <2> QED BY <1>1, <2>1, <2>3, PayingKeepsBooks DEF PotInv, PotKeptUnlessDrawn
  <1>8. CASE \/ \E list \in PlayerLists, amount \in Amounts : StartNewLottery(list, amount)
             \/ StopDeposit \/ PickWinnerReturns
    BY <1>4, <1>8 DEF StartNewLottery, StopDeposit, PickWinnerReturns
  <1> QED BY <1>4, <1>5, <1>6, <1>7, <1>8 DEF GroupNext, LotteryNext, systemVars

(* The contract never approves anybody and never is a user. *)
LEMMA SpecPotInv == LotterySpec => []PotInv
  BY InitPotInv, NextPotInv, PTL DEF LotterySpec, systemVars

(* What players deposited stays until it is sent to the winner, whoever     *)
(* destroys, sends on behalf of others, or calls from within other calls,   *)
(* in the meantime.                                                         *)
THEOREM PotIsKept == LotterySpec => PotStays
  <1>1. PotInv /\ [GroupNext]_systemVars
          => PotInv' /\ [lotteryState # "CLOSED" /\ lotteryState' # "CLOSED"
                         /\ balances'[This] < balances[This]
                            => Len(pendingDraws') > Len(pendingDraws)
                         ]_<<lotteryState, balances, pendingDraws>>
    BY NextPotInv DEF PotKeptUnlessDrawn
  <1> QED BY InitPotInv, <1>1, PTL DEF LotterySpec, systemVars, PotStays

(* Deposits and payments of the lotteries keep the books of the asset.      *)
THEOREM LotteryBooksBalance == LotterySpec => []BooksBalance
  <1>1. PotInv => BooksBalance
    BY DEF PotInv, AssetInv, BooksInv
  <1> QED BY SpecPotInv, <1>1, PTL

(* So they do its types.                                                    *)
THEOREM LotteryAssetTypes == LotterySpec => []TypeOK
  <1>1. PotInv => TypeOK
    BY DEF PotInv, AssetInv, BooksInv, TypeOK
  <1> QED BY SpecPotInv, <1>1, PTL

-----------------------------------------------------------------------------
(* The oracle as OneShotRequests, with the contract as the only consumer.   *)

Answered(id) == id.nonce <= requests /\ id.nonce \notin validIds

OneShot ==
  INSTANCE OneShotRequests
    WITH Consumers <- {This}, Results <- Numbers,
         opened <- [c \in {This} |-> requests],
         answer <- [id \in [callback : {This}, nonce : 1..MaxRequests] |->
                      IF Answered(id) THEN resultMap[id.nonce] ELSE None]

(* A step of the oracle is one of OneShotRequests.                          *)
LEMMA OracleStep ==
  ASSUME OracleTypeOK, OracleNext
  PROVE  OneShot!Next
  <1> DEFINE Ids == [callback : {This}, nonce : 1..MaxRequests]
  <1>1. /\ requests \in 0..MaxRequests /\ MaxRequests \in Nat /\ requests \in Nat
        /\ validIds \subseteq 1..requests /\ resultMap \in [RequestIds -> Nat]
    BY OracleAssumption DEF OracleTypeOK
  <1>2. CASE Request
    <2>1. /\ requests < MaxRequests /\ requests' = requests + 1
          /\ validIds' = validIds \cup {requests + 1} /\ resultMap' = resultMap
      BY <1>2 DEF Request
    <2>2. \A id \in Ids : Answered(id)' <=> Answered(id)
      BY <1>1, <2>1 DEF Answered
    <2>3. OneShot!Open(This)
      BY <2>1, <2>2 DEF OneShot!Open
    <2> QED BY <2>3 DEF OneShot!Next
  <1>3. ASSUME NEW nonce \in validIds, NEW number \in Numbers, Callback(nonce, number)
        PROVE  OneShot!Next
    <2> DEFINE id == [callback |-> This, nonce |-> nonce]
    <2>1. /\ requests' = requests /\ validIds' = validIds \ {nonce}
          /\ resultMap' = [resultMap EXCEPT ![nonce] = number]
      BY <1>3 DEF Callback
    <2>2. nonce \in 1..requests /\ nonce \in 1..MaxRequests /\ nonce \in RequestIds
      BY <1>1 DEF RequestIds
    <2>3. id \in Ids /\ id.nonce = nonce /\ id.callback = This /\ ~Answered(id) /\ Answered(id)'
      BY <1>1, <2>1, <2>2 DEF Answered
    <2>4. \A other \in Ids : other # id =>
            /\ Answered(other)' <=> Answered(other)
            /\ resultMap'[other.nonce] = resultMap[other.nonce]
      <3>1. \A other \in Ids : other # id => other.nonce # nonce /\ other.nonce \in RequestIds
        BY <1>1 DEF RequestIds
      <3> QED BY <1>1, <2>1, <3>1 DEF Answered
    <2>5. resultMap'[nonce] = number
      BY <1>1, <2>1, <2>2
    <2> HIDE DEF id
    <2>6. OneShot!Answer(id, number)
      <3> DEFINE answer == [x \in Ids |-> IF Answered(x) THEN resultMap[x.nonce] ELSE None]
      <3>1. id.nonce <= [c \in {This} |-> requests][id.callback]
        BY <1>1, <2>2, <2>3
      <3>2. answer[id] = None
        BY <2>3
      <3>3. answer' = [answer EXCEPT ![id] = number]
        <4>1. \A x \in Ids : answer'[x] = IF x = id THEN number ELSE answer[x]
          BY <2>3, <2>4, <2>5
        <4> QED BY <2>3, <4>1
      <3> QED BY <2>1, <3>1, <3>2, <3>3 DEF OneShot!Answer
    <2> QED BY <2>3, <2>6 DEF OneShot!Next, OneShot!RequestId
  <1> QED BY <1>2, <1>3 DEF OracleNext

(* What a lottery draws by is what OneShotRequests promises: the oracle     *)
(* answers each of its requests at most once, and the answer stays.         *)
THEOREM OracleAnswersOnce == LotterySpec => OneShot!Spec
  <1>1. LotteryInit => OneShot!Init
    <2> SUFFICES ASSUME LotteryInit PROVE OneShot!Init
      OBVIOUS
    <2>1. requests = 0
      BY DEF LotteryInit, OracleInit
    <2>2. \A id \in [callback : {This}, nonce : 1..MaxRequests] : ~Answered(id)
      BY <2>1 DEF Answered
    <2> QED BY <2>1, <2>2 DEF OneShot!Init, OneShot!RequestId
  <1>2. DrawInv /\ [GroupNext]_systemVars => [OneShot!Next]_OneShot!vars
    <2> SUFFICES ASSUME DrawInv, [GroupNext]_systemVars
                 PROVE  [OneShot!Next]_OneShot!vars
      OBVIOUS
    <2>1. CASE OracleNext
      BY <2>1, OracleStep DEF DrawInv, LotteryTypeOK
    <2>2. CASE UNCHANGED oracleVars
      BY <2>2 DEF oracleVars, OneShot!vars, Answered
    <2>3. Request => OracleNext
      BY DEF OracleNext
    <2> QED BY <2>1, <2>2, <2>3
            DEF GroupNext, LotteryNext, StartNewLottery, StopDeposit, PickWinner,
                PickWinnerCallsOut, PickWinnerReturns, Deposit, systemVars
  <1> QED BY <1>1, <1>2, SpecDrawInv, PTL DEF LotterySpec, OneShot!Spec, systemVars
=============================================================================
