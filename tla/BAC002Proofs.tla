----------------------------- MODULE BAC002Proofs -----------------------------
(***************************************************************************)
(* The lists of BAC002 enumerate its assets, for any accounts and assets,  *)
(* and CatBlindbox, which is one, draws each species once.                 *)
(*                                                                         *)
(* Removing by swap-and-pop and appending are each shown to keep one list  *)
(* right, then to keep the lists of all owners right, for they share the   *)
(* array of positions; a transaction is one of the two or both in turn.    *)
(***************************************************************************)
EXTENDS CatBlindbox, TLAPS

-----------------------------------------------------------------------------
(* One list.                                                               *)

(* Only the positions of what the list names matter.                       *)
LEMMA SamePositions ==
  ASSUME NEW list, NEW positions, NEW other, NEW owned,
         Enumerates(list, positions, owned),
         \A id \in owned : other[id] = positions[id]
  PROVE  Enumerates(list, other, owned)
  BY DEF Enumerates

(* An asset that is appended is named at the end.                          *)
LEMMA AppendEnumerates ==
  ASSUME NEW list \in Seq(Assets), NEW positions \in [Assets -> Nat],
         NEW owned \in SUBSET Assets, NEW id \in Assets \ owned,
         Enumerates(list, positions, owned)
  PROVE  /\ Append(list, id) \in Seq(Assets)
         /\ Enumerates(Append(list, id), [positions EXCEPT ![id] = Len(list)], owned \cup {id})
  <1> DEFINE longer == Append(list, id)
             P == [positions EXCEPT ![id] = Len(list)]
  <1>1. /\ longer \in Seq(Assets) /\ Len(longer) = Len(list) + 1 /\ Len(list) \in Nat
        /\ longer[Len(list) + 1] = id
        /\ \A i \in 1..Len(list) : longer[i] = list[i]
    OBVIOUS
  <1>2. /\ P[id] = Len(list)
        /\ \A x \in owned : P[x] = positions[x]
    OBVIOUS
  <1> HIDE DEF longer, P
  <1>3. ASSUME NEW i \in 1..Len(longer)
        PROVE  longer[i] \in owned \cup {id} /\ P[longer[i]] = i - 1
    <2>1. CASE i = Len(list) + 1
      BY <1>1, <1>2, <2>1
    <2>2. CASE i \in 1..Len(list)
      BY <1>1, <1>2, <2>2 DEF Enumerates
    <2> QED BY <1>1, <2>1, <2>2
  <1>4. ASSUME NEW x \in owned \cup {id}
        PROVE  P[x] < Len(longer) /\ longer[P[x] + 1] = x
    <2>1. CASE x = id
      BY <1>1, <1>2, <2>1
    <2>2. CASE x \in owned
      <3>1. positions[x] \in Nat /\ positions[x] < Len(list) /\ list[positions[x] + 1] = x
        BY <2>2 DEF Enumerates
      <3>2. positions[x] + 1 \in 1..Len(list)
        BY <1>1, <3>1
      <3>3. P[x] = positions[x]
        BY <1>2, <2>2
      <3> QED BY <1>1, <3>1, <3>2, <3>3
    <2> QED BY <2>1, <2>2
  <1> QED BY <1>1, <1>3, <1>4 DEF Enumerates, longer, P

(* What swap-and-pop does to a list that names an asset.                   *)
Removed(list, positions, owned, id) ==
  LET shorter == SwapAndPop(list, positions[id])
      moved == MovedIndex(positions, list, positions[id])
  IN  /\ shorter \in Seq(Assets)
      /\ Len(shorter) = Len(list) - 1
      /\ list # <<>> /\ Len(list) \in Nat \ {0}
      /\ list[Len(list)] \in owned
      /\ moved \in [Assets -> Nat]
      /\ \A x \in Assets \ owned : moved[x] = positions[x]
      /\ Enumerates(shorter, moved, owned \ {id})

(* A list without one of the assets it names still enumerates the others.  *)
LEMMA SwapAndPopEnumerates ==
  ASSUME NEW list \in Seq(Assets), NEW positions \in [Assets -> Nat],
         NEW owned \in SUBSET Assets, NEW id \in owned,
         Enumerates(list, positions, owned)
  PROVE  Removed(list, positions, owned, id)
  <1> DEFINE index == positions[id]
             n == Len(list)
             last == list[n]
             shorter == SwapAndPop(list, index)
             P == MovedIndex(positions, list, index)
  <1>1. /\ n \in Nat /\ index \in 0..n - 1 /\ list[index + 1] = id
        /\ n \in 1..n
    BY DEF Enumerates
  <1>2. last \in owned /\ positions[last] = n - 1 /\ last \in Assets
    BY <1>1 DEF Enumerates
  <1>3. shorter = [i \in 1..n - 1 |-> IF i = index + 1 THEN last ELSE list[i]]
    BY DEF SwapAndPop
  <1>4. \A i \in 1..n - 1 : shorter[i] \in Assets
    BY <1>2, <1>3
  <1>5. n - 1 \in Nat
    BY <1>1
  <1>6. shorter \in Seq(Assets) /\ Len(shorter) = n - 1
    BY <1>3, <1>4, <1>5
  <1>7. P \in [Assets -> Nat]
    BY <1>1, <1>2 DEF MovedIndex
  <1>8. \A x \in Assets : x # last => P[x] = positions[x]
    BY DEF MovedIndex
  <1>9. last # id => P[last] = index /\ index # n - 1
    BY <1>1, <1>2 DEF MovedIndex
  <1> HIDE DEF P, shorter, n, last, index
  <1>10. ASSUME NEW i \in 1..n - 1
         PROVE  shorter[i] \in owned \ {id} /\ P[shorter[i]] = i - 1
    <2>1. i \in 1..n /\ list[i] \in owned /\ list[i] \in Assets /\ positions[list[i]] = i - 1
      BY <1>1 DEF Enumerates, n
    <2>2. CASE i = index + 1
      <3>1. shorter[i] = last
        BY <1>3, <2>2
      <3>2. last # id
        BY <1>1, <1>2, <2>2 DEF index
      <3> QED BY <1>1, <1>2, <1>9, <2>2, <3>1, <3>2
    <2>3. CASE i # index + 1
      <3>1. shorter[i] = list[i]
        BY <1>3, <2>3
      <3>2. list[i] # id
        BY <1>1, <2>1, <2>3 DEF index
      <3>3. list[i] # last
        BY <1>1, <1>2, <2>1
      <3> QED BY <1>8, <2>1, <3>1, <3>2, <3>3
    <2> QED BY <2>2, <2>3
  <1>11. ASSUME NEW x \in owned \ {id}
         PROVE  P[x] < n - 1 /\ shorter[P[x] + 1] = x
    <2>1. x \in Assets /\ positions[x] \in 0..n - 1 /\ list[positions[x] + 1] = x
      BY DEF Enumerates, n
    <2>2. CASE x = last
      BY <1>1, <1>3, <1>9, <2>2
    <2>3. CASE x # last
      <3>1. P[x] = positions[x]
        BY <1>8, <2>1, <2>3
      <3>2. positions[x] # n - 1
        BY <1>1, <2>1, <2>3 DEF last
      <3>3. positions[x] # index
        BY <1>1, <2>1
      <3> QED BY <1>1, <1>3, <2>1, <3>1, <3>2, <3>3
    <2> QED BY <2>2, <2>3
  <1>12. Enumerates(shorter, P, owned \ {id})
    BY <1>6, <1>10, <1>11 DEF Enumerates
  <1> QED BY <1>1, <1>2, <1>6, <1>7, <1>8, <1>12 DEF Removed, shorter, P, n, last, index

-----------------------------------------------------------------------------
(* The lists of all owners.                                                *)

OwnedBy(owner, a) == {id \in Assets : owner[id] = a}

(* Lists, positions and counts that fit an assignment of owners.           *)
Books(lists, positions, counts, owner) ==
  /\ lists \in [Accounts -> Seq(Assets)]
  /\ positions \in [Assets -> Nat]
  /\ counts \in [Accounts -> Nat]
  /\ owner \in [Assets -> Accounts \cup {None}]
  /\ \A a \in Accounts : /\ Enumerates(lists[a], positions, OwnedBy(owner, a))
                        /\ counts[a] = Len(lists[a])

(* An asset without an owner is added to the list of an account.           *)
LEMMA PutIn ==
  ASSUME NEW lists, NEW positions, NEW counts, NEW owner,
         Books(lists, positions, counts, owner),
         NEW to \in Accounts, NEW id \in Assets, owner[id] = None
  PROVE  Books([lists EXCEPT ![to] = Append(@, id)],
               [positions EXCEPT ![id] = Len(lists[to])],
               [counts EXCEPT ![to] = @ + 1],
               [owner EXCEPT ![id] = to])
  <1> DEFINE L == [lists EXCEPT ![to] = Append(@, id)]
             P == [positions EXCEPT ![id] = Len(lists[to])]
             C == [counts EXCEPT ![to] = @ + 1]
             O == [owner EXCEPT ![id] = to]
  <1>1. /\ lists \in [Accounts -> Seq(Assets)]
        /\ positions \in [Assets -> Nat]
        /\ counts \in [Accounts -> Nat]
        /\ owner \in [Assets -> Accounts \cup {None}]
    BY DEF Books
  <1>2. lists[to] \in Seq(Assets) /\ Len(lists[to]) \in Nat
    BY <1>1
  <1>3. /\ Append(lists[to], id) \in Seq(Assets)
        /\ Len(Append(lists[to], id)) = Len(lists[to]) + 1
    BY <1>2
  <1>4. /\ L \in [Accounts -> Seq(Assets)]
        /\ P \in [Assets -> Nat]
        /\ C \in [Accounts -> Nat]
        /\ O \in [Assets -> Accounts \cup {None}]
    BY <1>1, <1>2, <1>3
  <1>5. ASSUME NEW a \in Accounts
        PROVE  Enumerates(L[a], P, OwnedBy(O, a)) /\ C[a] = Len(L[a])
    <2>1. /\ Enumerates(lists[a], positions, OwnedBy(owner, a))
          /\ counts[a] = Len(lists[a])
      BY DEF Books
    <2>2. id \notin OwnedBy(owner, a) /\ OwnedBy(owner, a) \in SUBSET Assets
      BY PartiesAssumption DEF OwnedBy
    <2>3. CASE a = to
      <3>1. Enumerates(Append(lists[to], id), P, OwnedBy(owner, to) \cup {id})
        BY <1>1, <1>2, <2>1, <2>2, <2>3, AppendEnumerates
      <3>2. OwnedBy(O, to) = OwnedBy(owner, to) \cup {id}
        BY <1>1 DEF OwnedBy
      <3>3. L[a] = Append(lists[to], id) /\ C[a] = counts[a] + 1
        BY <1>1, <2>3
      <3> QED BY <1>3, <2>1, <2>3, <3>1, <3>2, <3>3
    <2>4. CASE a # to
      <3>1. L[a] = lists[a] /\ C[a] = counts[a]
        BY <1>1, <2>4
      <3>2. OwnedBy(O, a) = OwnedBy(owner, a)
        BY <1>1, <2>2, <2>4 DEF OwnedBy
      <3>3. \A x \in OwnedBy(owner, a) : P[x] = positions[x]
        BY <1>1, <2>2
      <3>4. Enumerates(lists[a], P, OwnedBy(owner, a))
        BY <2>1, <3>3, SamePositions
      <3> QED BY <2>1, <3>1, <3>2, <3>4
    <2> QED BY <2>3, <2>4
  <1> QED BY <1>4, <1>5 DEF Books

(* An asset is taken out of its owner's list.                              *)
LEMMA TakeOut ==
  ASSUME Books(ownedAssets, ownedAssetsIndex, ownedAssetsCount, assetOwner),
         NEW from \in Accounts, NEW id \in Assets, assetOwner[id] = from
  PROVE  Books(ListsWithout(from, id), PositionsWithout(from, id),
               [ownedAssetsCount EXCEPT ![from] = @ - 1],
               [assetOwner EXCEPT ![id] = None])
  <1> DEFINE L == ListsWithout(from, id)
             P == PositionsWithout(from, id)
             C == [ownedAssetsCount EXCEPT ![from] = @ - 1]
             O == [assetOwner EXCEPT ![id] = None]
             list == ownedAssets[from]
             owned == OwnedBy(assetOwner, from)
             shorter == SwapAndPop(list, ownedAssetsIndex[id])
  <1>1. /\ ownedAssets \in [Accounts -> Seq(Assets)]
        /\ ownedAssetsIndex \in [Assets -> Nat]
        /\ ownedAssetsCount \in [Accounts -> Nat]
        /\ assetOwner \in [Assets -> Accounts \cup {None}]
        /\ \A a \in Accounts :
             /\ Enumerates(ownedAssets[a], ownedAssetsIndex, OwnedBy(assetOwner, a))
             /\ ownedAssetsCount[a] = Len(ownedAssets[a])
    BY DEF Books
  <1>2. /\ list \in Seq(Assets) /\ owned \in SUBSET Assets /\ id \in owned
        /\ Enumerates(list, ownedAssetsIndex, owned)
    BY <1>1 DEF OwnedBy
  <1>3. P = MovedIndex(ownedAssetsIndex, list, ownedAssetsIndex[id])
    BY DEF PositionsWithout
  <1>4. /\ shorter \in Seq(Assets) /\ Len(shorter) = Len(list) - 1
        /\ Len(list) \in Nat \ {0}
        /\ P \in [Assets -> Nat]
        /\ \A x \in Assets \ owned : P[x] = ownedAssetsIndex[x]
        /\ Enumerates(shorter, P, owned \ {id})
    <2> DEFINE moved == MovedIndex(ownedAssetsIndex, list, ownedAssetsIndex[id])
    <2>1. Removed(list, ownedAssetsIndex, owned, id)
      <3>1. ownedAssetsIndex \in [Assets -> Nat]
        BY <1>1
      <3> HIDE DEF list, owned
      <3> QED BY <1>2, <3>1, SwapAndPopEnumerates
    <2>2. P = moved
      BY <1>3
    <2> HIDE DEF list, owned, P
    <2> QED BY <2>1, <2>2 DEF Removed
  <1>5. L = [ownedAssets EXCEPT ![from] = shorter]
    BY DEF ListsWithout
  <1> HIDE DEF L, P, shorter
  <1>6. /\ L \in [Accounts -> Seq(Assets)]
        /\ C \in [Accounts -> Nat]
        /\ O \in [Assets -> Accounts \cup {None}]
    BY <1>1, <1>4, <1>5
  <1>7. ASSUME NEW a \in Accounts
        PROVE  Enumerates(L[a], P, OwnedBy(O, a)) /\ C[a] = Len(L[a])
    <2>1. CASE a = from
      <3>1. OwnedBy(O, from) = owned \ {id}
        BY <1>1, PartiesAssumption DEF OwnedBy
      <3>2. L[a] = shorter /\ C[a] = Len(list) - 1
        BY <1>1, <1>5, <2>1
      <3> QED BY <1>4, <2>1, <3>1, <3>2
    <2>2. CASE a # from
      <3>1. L[a] = ownedAssets[a] /\ C[a] = ownedAssetsCount[a]
        BY <1>1, <1>5, <2>2
      <3>2. OwnedBy(O, a) = OwnedBy(assetOwner, a)
        BY <1>1, <2>2, PartiesAssumption DEF OwnedBy
      <3>3. \A x \in OwnedBy(assetOwner, a) : P[x] = ownedAssetsIndex[x]
        BY <1>4, <2>2 DEF OwnedBy
      <3>4. Enumerates(ownedAssets[a], P, OwnedBy(assetOwner, a))
        BY <1>1, <3>3, SamePositions
      <3> QED BY <1>1, <3>1, <3>2, <3>4
    <2> QED BY <2>1, <2>2
  <1> QED BY <1>4, <1>6, <1>7 DEF Books, P, L

(* The lists of the owners are right, and so is that of all assets.        *)
OwnersListed == Books(ownedAssets, ownedAssetsIndex, ownedAssetsCount, assetOwner)

Existing == {id \in Assets : Exists(id)}

AllListed ==
  /\ allAssets \in Seq(Assets)
  /\ allAssetsIndex \in [Assets -> Nat]
  /\ Enumerates(allAssets, allAssetsIndex, Existing)

(* An asset is issued.                                                     *)
LEMMA IssueListed ==
  ASSUME OwnersListed, AllListed,
         NEW caller \in Users, NEW to \in Accounts, NEW id \in Assets,
         Issue(caller, to, id)
  PROVE  OwnersListed' /\ AllListed'
  <1>1. /\ assetOwner[id] = None
        /\ assetOwner' = [assetOwner EXCEPT ![id] = to]
        /\ ownedAssetsCount' = [ownedAssetsCount EXCEPT ![to] = @ + 1]
        /\ ownedAssets' = [ownedAssets EXCEPT ![to] = Append(@, id)]
        /\ ownedAssetsIndex' = [ownedAssetsIndex EXCEPT ![id] = Len(ownedAssets[to])]
        /\ allAssets' = Append(allAssets, id)
        /\ allAssetsIndex' = [allAssetsIndex EXCEPT ![id] = Len(allAssets)]
    BY DEF Issue, Exists
  <1>2. OwnersListed'
    BY <1>1, PutIn DEF OwnersListed
  <1>3. assetOwner \in [Assets -> Accounts \cup {None}]
    BY DEF OwnersListed, Books
  <1>4. Existing' = Existing \cup {id}
    BY <1>1, <1>3, PartiesAssumption DEF Existing, Exists
  <1>5. id \in Assets \ Existing /\ Existing \in SUBSET Assets
    BY <1>1 DEF Existing, Exists
  <1>6. /\ Append(allAssets, id) \in Seq(Assets)
        /\ Enumerates(Append(allAssets, id), [allAssetsIndex EXCEPT ![id] = Len(allAssets)],
                      Existing \cup {id})
    BY <1>5, AppendEnumerates DEF AllListed
  <1>7. allAssetsIndex' \in [Assets -> Nat]
    BY <1>1 DEF AllListed
  <1>8. AllListed'
    BY <1>1, <1>4, <1>6, <1>7 DEF AllListed
  <1> QED BY <1>2, <1>8

(* An asset is sent on, maybe to its owner.                                *)
LEMMA SendFromListed ==
  ASSUME OwnersListed, AllListed,
         NEW caller, NEW from \in Accounts, NEW to \in Accounts, NEW id \in Assets,
         SendFrom(caller, from, to, id)
  PROVE  OwnersListed' /\ AllListed'
  <1> DEFINE L == ListsWithout(from, id)
             P == PositionsWithout(from, id)
             C == [ownedAssetsCount EXCEPT ![from] = @ - 1]
             O == [assetOwner EXCEPT ![id] = None]
  <1>1. /\ assetOwner[id] = from
        /\ assetOwner' = [assetOwner EXCEPT ![id] = to]
        /\ ownedAssetsCount' = [C EXCEPT ![to] = @ + 1]
        /\ ownedAssets' = [L EXCEPT ![to] = Append(@, id)]
        /\ ownedAssetsIndex' = [P EXCEPT ![id] = Len(L[to])]
        /\ UNCHANGED <<allAssets, allAssetsIndex>>
    BY DEF SendFrom, HandOver, allVars
  <1>2. assetOwner \in [Assets -> Accounts \cup {None}]
    BY DEF OwnersListed, Books
  <1>3. Books(L, P, C, O)
    BY <1>1, TakeOut DEF OwnersListed
  <1>4. O[id] = None
    BY <1>2
  <1>5. [O EXCEPT ![id] = to] = assetOwner'
    BY <1>1, <1>2
  <1> HIDE DEF L, P, C, O
  <1>6. Books([L EXCEPT ![to] = Append(@, id)], [P EXCEPT ![id] = Len(L[to])],
              [C EXCEPT ![to] = @ + 1], [O EXCEPT ![id] = to])
    BY <1>3, <1>4, PutIn
  <1>7. OwnersListed'
    BY <1>1, <1>5, <1>6 DEF OwnersListed
  <1>8. Existing' = Existing
    BY <1>1, <1>2, PartiesAssumption DEF Existing, Exists
  <1>9. AllListed'
    BY <1>1, <1>8 DEF AllListed
  <1> QED BY <1>7, <1>9

(* An asset is destroyed. The list of all assets is moved up by a version   *)
(* of swap-and-pop that does not look whether the asset is the last.        *)
LEMMA DestroyListed ==
  ASSUME OwnersListed, AllListed,
         NEW caller, NEW id \in Assets, Destroy(caller, id)
  PROVE  OwnersListed' /\ AllListed'
  <1> DEFINE owner == assetOwner[id]
             L == ListsWithout(owner, id)
             P == PositionsWithout(owner, id)
             C == [ownedAssetsCount EXCEPT ![owner] = @ - 1]
             O == [assetOwner EXCEPT ![id] = None]
             n == Len(allAssets)
             index == allAssetsIndex[id]
             M == MovedIndex(allAssetsIndex, allAssets, index)
  <1>1. /\ owner # None
        /\ assetOwner' = O
        /\ ownedAssetsCount' = C
        /\ ownedAssets' = L
        /\ ownedAssetsIndex' = [P EXCEPT ![id] = 0]
        /\ RemoveFromAllAssets(id)
    BY DEF Destroy, HandOver, IsApprovedOrOwner, Exists
  <1>2. assetOwner \in [Assets -> Accounts \cup {None}]
    BY DEF OwnersListed, Books
  <1>3. owner \in Accounts
    BY <1>1, <1>2
  <1>4. Books(L, P, C, O)
    BY <1>3, TakeOut DEF OwnersListed
  <1>5. Books(L, [P EXCEPT ![id] = 0], C, O)
    <2>1. \A a \in Accounts : id \notin OwnedBy(O, a)
      BY <1>2, PartiesAssumption DEF OwnedBy
    <2> HIDE DEF L, P, C, O
    <2>2. /\ P \in [Assets -> Nat]
          /\ \A a \in Accounts : Enumerates(L[a], P, OwnedBy(O, a))
      BY <1>4 DEF Books
    <2>3. [P EXCEPT ![id] = 0] \in [Assets -> Nat]
      BY <2>2
    <2>4. \A a \in Accounts : Enumerates(L[a], [P EXCEPT ![id] = 0], OwnedBy(O, a))
      <3> SUFFICES ASSUME NEW a \in Accounts
                   PROVE  Enumerates(L[a], [P EXCEPT ![id] = 0], OwnedBy(O, a))
        OBVIOUS
      <3>1. \A x \in OwnedBy(O, a) : [P EXCEPT ![id] = 0][x] = P[x]
        BY <2>1, <2>2 DEF OwnedBy
      <3>2. Enumerates(L[a], P, OwnedBy(O, a))
        BY <2>2
      <3> QED BY <3>1, <3>2, SamePositions
    <2> QED BY <1>4, <2>3, <2>4 DEF Books
  <1>6. OwnersListed'
    BY <1>1, <1>5 DEF OwnersListed
  <1>7. Existing' = Existing \ {id} /\ id \in Existing /\ Existing \in SUBSET Assets
    BY <1>1, <1>2 DEF Existing, Exists
  <1>8. Removed(allAssets, allAssetsIndex, Existing, id)
    BY <1>7, SwapAndPopEnumerates DEF AllListed
  <1>9. /\ SwapAndPop(allAssets, index) \in Seq(Assets)
        /\ n \in Nat \ {0} /\ allAssets[n] \in Existing
        /\ Enumerates(SwapAndPop(allAssets, index), M, Existing \ {id})
    BY <1>8 DEF Removed
  <1>10. /\ index \in Nat /\ allAssets[index + 1] = id
         /\ allAssetsIndex \in [Assets -> Nat]
    BY <1>7 DEF AllListed, Enumerates
  <1>11. /\ allAssets' = SwapAndPop(allAssets, index)
         /\ allAssetsIndex' = [[allAssetsIndex EXCEPT ![allAssets[n]] = index] EXCEPT ![id] = 0]
    BY <1>1 DEF RemoveFromAllAssets
  <1>12. \A x \in Existing \ {id} : allAssetsIndex'[x] = M[x]
    <2>1. CASE index = n - 1
      <3>1. allAssets[n] = id
        BY <1>9, <1>10, <2>1
      <3> QED BY <1>7, <1>10, <1>11, <2>1, <3>1 DEF MovedIndex
    <2>2. CASE index # n - 1
      BY <1>7, <1>10, <1>11, <2>2 DEF MovedIndex
    <2> QED BY <2>1, <2>2
  <1>13. allAssetsIndex' \in [Assets -> Nat]
    BY <1>10, <1>11
  <1> HIDE DEF M
  <1>14. Enumerates(allAssets', allAssetsIndex', Existing \ {id})
    BY <1>9, <1>11, <1>12, SamePositions
  <1>15. AllListed'
    BY <1>7, <1>9, <1>11, <1>13, <1>14 DEF AllListed
  <1> QED BY <1>6, <1>15

-----------------------------------------------------------------------------
(* The inductive invariant.                                                *)

ApprovalTypes ==
  /\ RolesTypeOK
  /\ assetApprovals \in [Assets -> Accounts \cup {None}]
  /\ operatorApprovals \in [Accounts -> SUBSET Accounts]

(* Nobody is approved for what does not exist, and may be issued.          *)
ApprovedExist == \A id \in Assets : assetApprovals[id] # None => Exists(id)

IInv == ApprovalTypes /\ OwnersListed /\ AllListed /\ ApprovedExist

(* Without assets all lists are empty. *)
LEMMA InitIInv == Init => IInv
  <1> SUFFICES ASSUME Init PROVE IInv
    OBVIOUS
  <1>1. ApprovalTypes
    BY PartiesAssumption DEF Init, RolesInit, ApprovalTypes, RolesTypeOK
  <1>2. \A a \in Accounts : OwnedBy(assetOwner, a) = {} /\ ownedAssets[a] = <<>>
    BY PartiesAssumption DEF Init, OwnedBy
  <1>3. Existing = {}
    BY DEF Init, Existing, Exists
  <1>4. \A positions : Enumerates(<<>>, positions, {})
    BY DEF Enumerates
  <1>5. <<>> \in Seq(Assets) /\ Len(<<>>) = 0
    OBVIOUS
  <1>6. OwnersListed
    BY <1>2, <1>4, <1>5 DEF Init, OwnersListed, Books
  <1>7. AllListed
    BY <1>3, <1>4, <1>5 DEF Init, AllListed
  <1>8. ApprovedExist
    BY DEF Init, ApprovedExist
  <1> QED BY <1>1, <1>6, <1>7, <1>8 DEF IInv

(* What does not move assets leaves the lists as they are.                  *)
LEMMA ListedUnchanged ==
  ASSUME OwnersListed, AllListed, UNCHANGED <<assetOwner, listVars, allVars>>
  PROVE  OwnersListed' /\ AllListed'
  <1>1. OwnersListed'
    BY DEF OwnersListed, listVars
  <1>2. Existing' = Existing
    BY DEF Existing, Exists
  <1> QED BY <1>1, <1>2 DEF AllListed, allVars

(* Sending keeps it, whoever sends: users, or a contract.                   *)
LEMMA SendFromIInv ==
  ASSUME IInv, NEW caller, NEW from \in Accounts, NEW to \in Accounts, NEW id \in Assets,
         SendFrom(caller, from, to, id)
  PROVE  IInv'
  <1>1. assetOwner \in [Assets -> Accounts \cup {None}]
    BY DEF IInv, OwnersListed, Books
  <1>2. ApprovalTypes'
    BY DEF IInv, SendFrom, HandOver, ApprovalTypes, RolesTypeOK, roleVars
  <1>3. OwnersListed' /\ AllListed'
    BY SendFromListed DEF IInv
  <1>4. ApprovedExist'
    BY <1>1, PartiesAssumption DEF IInv, SendFrom, HandOver, ApprovedExist, Exists, ApprovalTypes
  <1> QED BY <1>2, <1>3, <1>4 DEF IInv

(* So does everything else that changes assets or roles.                    *)
LEMMA NextIInv == IInv /\ [Next]_vars => IInv'
  <1> SUFFICES ASSUME IInv, [Next]_vars PROVE IInv'
    OBVIOUS
  <1> USE DEF IInv
  <1>1. assetOwner \in [Assets -> Accounts \cup {None}]
    BY DEF OwnersListed, Books
  <1>2. ASSUME NEW caller \in Users, NEW to \in Accounts, NEW approved \in BOOLEAN,
               SetApprovalForAll(caller, to, approved)
        PROVE  IInv'
    <2>1. caller \in Accounts
      BY PartiesAssumption
    <2>2. ApprovalTypes'
      BY <1>2, <2>1 DEF SetApprovalForAll, ApprovalTypes, RolesTypeOK, roleVars, ownerVars
    <2>3. OwnersListed' /\ AllListed'
      BY <1>2, ListedUnchanged DEF SetApprovalForAll, ownerVars
    <2>4. ApprovedExist'
      BY <1>2 DEF SetApprovalForAll, ApprovedExist, Exists, ownerVars
    <2> QED BY <2>2, <2>3, <2>4
  <1>3. ASSUME NEW caller \in Users, NEW id \in Assets, NEW to \in Accounts \cup {None},
               Approve(caller, to, id)
        PROVE  IInv'
    <2>1. ApprovalTypes'
      BY <1>3 DEF Approve, ApprovalTypes, RolesTypeOK, roleVars
    <2>2. OwnersListed' /\ AllListed'
      BY <1>3, ListedUnchanged DEF Approve
    <2>3. ApprovedExist'
      BY <1>3 DEF Approve, ApprovedExist, Exists, ApprovalTypes
    <2> QED BY <2>1, <2>2, <2>3
  <1>4. ASSUME NEW caller \in Users, NEW from \in Accounts, NEW to \in Accounts,
               NEW id \in Assets, SendFrom(caller, from, to, id)
        PROVE  IInv'
    BY <1>4, SendFromIInv
  <1>5. ASSUME NEW caller \in Users, NEW id \in Assets, Destroy(caller, id)
        PROVE  IInv'
    <2>1. ApprovalTypes'
      BY <1>5 DEF Destroy, HandOver, ApprovalTypes, RolesTypeOK, roleVars
    <2>2. OwnersListed' /\ AllListed'
      BY <1>5, DestroyListed
    <2>3. ApprovedExist'
      BY <1>1, <1>5 DEF Destroy, HandOver, ApprovedExist, Exists, ApprovalTypes
    <2> QED BY <2>1, <2>2, <2>3
  <1>6. ASSUME NEW caller \in Users, NEW to \in Accounts, NEW id \in Assets,
               Issue(caller, to, id)
        PROVE  IInv'
    <2>1. ApprovalTypes'
      BY <1>6 DEF Issue, ApprovalTypes, RolesTypeOK, roleVars
    <2>2. OwnersListed' /\ AllListed'
      BY <1>6, IssueListed
    <2>3. ApprovedExist'
      BY <1>1, <1>6 DEF Issue, ApprovedExist, Exists
    <2> QED BY <2>1, <2>2, <2>3
  <1>7. CASE RolesNext /\ UNCHANGED assetVars
    <2>1. ApprovalTypes'
      BY <1>7 DEF RolesNext, AddIssuer, RenounceIssuer, AddSuspender, RenounceSuspender,
                  Suspend, UnSuspend, ApprovalTypes, RolesTypeOK, assetVars, ownerVars
    <2>2. OwnersListed' /\ AllListed'
      BY <1>7, ListedUnchanged DEF assetVars, ownerVars
    <2>3. ApprovedExist'
      BY <1>7 DEF ApprovedExist, Exists, assetVars, ownerVars
    <2> QED BY <2>1, <2>2, <2>3
  <1>8. CASE UNCHANGED vars
    <2>1. ApprovalTypes' /\ ApprovedExist'
      BY <1>8 DEF ApprovalTypes, RolesTypeOK, ApprovedExist, Exists, vars, roleVars,
                  assetVars, ownerVars
    <2>2. OwnersListed' /\ AllListed'
      BY <1>8, ListedUnchanged DEF vars, assetVars, ownerVars
    <2> QED BY <2>1, <2>2
  <1> QED BY <1>2, <1>3, <1>4, <1>5, <1>6, <1>7, <1>8 DEF Next, HolderNext, IssuerNext

(* It holds in every state.                                                *)
LEMMA SpecIInv == Spec => []IInv
  <1> QED BY InitIInv, NextIInv, PTL DEF Spec

(* The inductive invariant implies the types. *)
LEMMA IInvTypeOK == IInv => TypeOK
  BY DEF IInv, TypeOK, ApprovalTypes, OwnersListed, AllListed, Books

(* Its two halves are what the lists should be. *)
LEMMA IInvEnumerationOK == IInv => EnumerationOK
  BY DEF IInv, EnumerationOK, OwnersListed, AllListed, Books, Existing, OwnedBy

-----------------------------------------------------------------------------
(* All lists, positions and counts of BAC002.sol keep their types.          *)
THEOREM AssetTypes == Spec => []TypeOK
  <1> QED BY SpecIInv, IInvTypeOK, PTL

(* However many accounts issue, send on and destroy however many assets,    *)
(* the owners' lists and that of all assets enumerate what they should, and *)
(* the positions the next swap-and-pop will use are right.                  *)
THEOREM ListsEnumerate == Spec => []EnumerationOK
  <1> QED BY SpecIInv, IInvEnumerationOK, PTL

(* What a step does to approvals.                                          *)
ApprovalsEndNow ==
  \A id \in Assets : assetOwner'[id] # assetOwner[id] => assetApprovals'[id] = None

(* Sending clears the approval of what is sent, whoever sends. *)
LEMMA SendFromEndsApproval ==
  ASSUME IInv, NEW caller, NEW from \in Accounts, NEW to \in Accounts, NEW id \in Assets,
         SendFrom(caller, from, to, id)
  PROVE  ApprovalsEndNow
  <1>1. /\ assetOwner \in [Assets -> Accounts \cup {None}]
        /\ assetApprovals \in [Assets -> Accounts \cup {None}]
    BY DEF IInv, OwnersListed, Books, ApprovalTypes
  <1> QED BY <1>1 DEF SendFrom, HandOver, ApprovalsEndNow

(* So does destroying, and what is issued has none. *)
LEMMA NextEndsApprovals == IInv /\ [Next]_vars => ApprovalsEndNow
  <1> SUFFICES ASSUME IInv, [Next]_vars PROVE ApprovalsEndNow
    OBVIOUS
  <1>1. /\ assetOwner \in [Assets -> Accounts \cup {None}]
        /\ assetApprovals \in [Assets -> Accounts \cup {None}]
    BY DEF IInv, OwnersListed, Books, ApprovalTypes
  <1>2. ASSUME NEW caller \in Users, NEW id \in Assets, Destroy(caller, id)
        PROVE  ApprovalsEndNow
    BY <1>1, <1>2 DEF Destroy, HandOver, ApprovalsEndNow
  <1>3. ASSUME NEW caller \in Users, NEW from \in Accounts, NEW to \in Accounts,
               NEW id \in Assets, SendFrom(caller, from, to, id)
        PROVE  ApprovalsEndNow
    BY <1>3, SendFromEndsApproval
  <1>4. ASSUME NEW caller \in Users, NEW to \in Accounts, NEW id \in Assets,
               Issue(caller, to, id)
        PROVE  ApprovalsEndNow
    <2>1. /\ ~Exists(id) /\ assetApprovals' = assetApprovals
          /\ assetOwner' = [assetOwner EXCEPT ![id] = to]
      BY <1>4 DEF Issue
    <2>2. assetApprovals[id] = None
      BY <2>1 DEF IInv, ApprovedExist
    <2> QED BY <1>1, <2>1, <2>2 DEF ApprovalsEndNow
  <1>5. CASE assetOwner' = assetOwner
    BY <1>5 DEF ApprovalsEndNow
  <1>6. ASSUME NEW caller \in Users, NEW id \in Assets, NEW to \in Accounts \cup {None},
               Approve(caller, to, id)
        PROVE  ApprovalsEndNow
    BY <1>5, <1>6 DEF Approve
  <1>7. ASSUME NEW caller \in Users, NEW to \in Accounts, NEW approved \in BOOLEAN,
               SetApprovalForAll(caller, to, approved)
        PROVE  ApprovalsEndNow
    BY <1>5, <1>7 DEF SetApprovalForAll, ownerVars
  <1>8. CASE UNCHANGED assetVars
    BY <1>5, <1>8 DEF assetVars, ownerVars
  <1> QED
    BY <1>2, <1>3, <1>4, <1>6, <1>7, <1>8 DEF Next, HolderNext, IssuerNext, vars

(* _clearApproval is called wherever an asset changes hands or ceases: an   *)
(* approval never outlives the ownership it was given under, not even for   *)
(* who gets an asset that was destroyed and is issued again.                *)
THEOREM ApprovalsEnd == Spec => ApprovalsEndWithOwnership
  <1>1. IInv /\ [Next]_vars
          => IInv' /\ [\A id \in Assets : assetOwner'[id] # assetOwner[id]
                                           => assetApprovals'[id] = None
                      ]_<<assetOwner, assetApprovals>>
    BY NextIInv, NextEndsApprovals DEF ApprovalsEndNow
  <1> QED BY InitIInv, <1>1, PTL DEF Spec, ApprovalsEndWithOwnership

-----------------------------------------------------------------------------
(* The blind box.                                                          *)

(* shorter, one entry less of S, is the list without what is at this index. *)
KeepsOthers(shorter, list, index, S) ==
  /\ shorter \in Seq(S) /\ Len(shorter) = Len(list) - 1
  /\ \A p \in 1..Len(list) - 1 : \E q \in 1..Len(list) :
       q # index + 1 /\ shorter[p] = list[q]
  /\ \A q \in 1..Len(list) : q # index + 1 =>
       \E p \in 1..Len(list) - 1 : shorter[p] = list[q]
  /\ (\A p, q \in 1..Len(list) : list[p] = list[q] => p = q) =>
       \A p, q \in 1..Len(list) - 1 : shorter[p] = shorter[q] => p = q

(* Swap-and-pop keeps the other entries, each of them once.                *)
LEMMA SwapAndPopKeepsOthers ==
  ASSUME NEW S, NEW list \in Seq(S), NEW index \in 0..Len(list) - 1
  PROVE  KeepsOthers(SwapAndPop(list, index), list, index, S)
  <1> DEFINE n == Len(list)
             shorter == SwapAndPop(list, index)
  <1>1. n \in Nat /\ n - 1 \in Nat /\ n \in 1..n /\ index + 1 \in 1..n
    OBVIOUS
  <1>2. shorter = [i \in 1..n - 1 |-> IF i = index + 1 THEN list[n] ELSE list[i]]
    BY DEF SwapAndPop
  <1>3. \A i \in 1..n : list[i] \in S
    OBVIOUS
  <1> HIDE DEF shorter, n
  <1>4. \A i \in 1..n - 1 : i \in 1..n /\ i # n
    BY <1>1
  <1>5. shorter \in Seq(S) /\ Len(shorter) = n - 1
    BY <1>1, <1>2, <1>3, <1>4
  <1>6. \A p \in 1..n - 1 :
          shorter[p] = list[IF p = index + 1 THEN n ELSE p]
    BY <1>2
  <1>7. ASSUME NEW p \in 1..n - 1
        PROVE  \E q \in 1..n : q # index + 1 /\ shorter[p] = list[q]
    <2>1. CASE p = index + 1
      BY <1>1, <1>4, <1>6, <2>1
    <2>2. CASE p # index + 1
      BY <1>4, <1>6, <2>2
    <2> QED BY <2>1, <2>2
  <1>8. ASSUME NEW q \in 1..n, q # index + 1
        PROVE  \E p \in 1..n - 1 : shorter[p] = list[q]
    <2>1. CASE q = n
      <3>1. index + 1 \in 1..n - 1
        BY <1>1, <1>8, <2>1
      <3> QED BY <1>6, <2>1, <3>1
    <2>2. CASE q # n
      <3>1. q \in 1..n - 1
        BY <1>1, <2>2
      <3> QED BY <1>6, <1>8, <3>1
    <2> QED BY <2>1, <2>2
  <1>9. ASSUME \A p, q \in 1..n : list[p] = list[q] => p = q,
               NEW p \in 1..n - 1, NEW q \in 1..n - 1, shorter[p] = shorter[q]
        PROVE  p = q
    BY <1>1, <1>4, <1>6, <1>9
  <1> QED BY <1>5, <1>7, <1>8, <1>9 DEF KeepsOthers, n, shorter

(* The oracle's steps keep its types, whoever makes the requests.           *)
LEMMA OracleTypes == ASSUME OracleTypeOK, OracleNext PROVE OracleTypeOK'
  <1>1. /\ requests \in 0..MaxRequests /\ MaxRequests \in Nat /\ requests \in Nat
        /\ validIds \subseteq 1..requests /\ resultMap \in [RequestIds -> Nat]
    BY OracleAssumption DEF OracleTypeOK
  <1>2. CASE Request
    <2>1. /\ requests' = requests + 1 /\ requests' \in 0..MaxRequests
          /\ validIds' = validIds \cup {requests'} /\ resultMap' = resultMap
      BY <1>1, <1>2 DEF Request
    <2>2. 1..requests \subseteq 1..requests' /\ requests' \in 1..requests'
      BY <1>1, <2>1
    <2>3. validIds' \subseteq 1..requests'
      BY <1>1, <2>1, <2>2, Zenon
    <2> QED BY <1>1, <2>1, <2>3 DEF OracleTypeOK, RequestIds
  <1>3. ASSUME NEW id \in validIds, NEW number \in Numbers, Callback(id, number)
        PROVE  OracleTypeOK'
    BY <1>1, <1>3, OracleAssumption DEF Callback, OracleTypeOK, RequestIds
  <1> QED BY <1>2, <1>3 DEF OracleNext

(* Pool and cats share the species: each is in one of the two, once, and so *)
(* the next cat's number is that of an asset.                               *)
Shared ==
  /\ Len(catSpeciesPool) + Len(generatedCats) = Len(CatsSpecies)
  /\ \A p, q \in 1..Len(catSpeciesPool) : catSpeciesPool[p] = catSpeciesPool[q] => p = q
  /\ \A c, d \in 1..Len(generatedCats) :
       generatedCats[c].species = generatedCats[d].species => c = d
  /\ \A p \in 1..Len(catSpeciesPool), c \in 1..Len(generatedCats) :
       catSpeciesPool[p] # generatedCats[c].species
  /\ \A s \in Species : \/ \E p \in 1..Len(catSpeciesPool) : catSpeciesPool[p] = s
                        \/ \E c \in 1..Len(generatedCats) : generatedCats[c].species = s

BoxInv == BoxTypeOK /\ Shared

(* All species are in the pool, none is drawn. *)
LEMMA BoxInitInv == BoxInit => BoxInv
  <1> SUFFICES ASSUME BoxInit PROVE BoxInv
    OBVIOUS
  <1>1. catSpeciesPool = CatsSpecies /\ generatedCats = <<>>
    BY DEF BoxInit
  <1>2. CatsSpecies \in Seq(Species) /\ Len(CatsSpecies) \in Nat
    BY BoxAssumption
  <1>3. BoxTypeOK
    BY <1>1, <1>2, OracleAssumption DEF BoxInit, OracleInit, BoxTypeOK, OracleTypeOK
  <1>4. ASSUME NEW p \in 1..Len(CatsSpecies), NEW q \in 1..Len(CatsSpecies),
               CatsSpecies[p] = CatsSpecies[q]
        PROVE  p = q
    <2>1. ~(p < q) /\ ~(q < p)
      BY <1>4, BoxAssumption
    <2> QED BY <2>1
  <1>5. \A s \in Species : \E p \in 1..Len(CatsSpecies) : CatsSpecies[p] = s
    BY DEF Species
  <1>6. Shared
    BY <1>1, <1>2, <1>4, <1>5 DEF Shared
  <1> QED BY <1>3, <1>6 DEF BoxInv

(* What a draw does to pool and cats.                                       *)
Draws(index, owner) ==
  /\ catSpeciesPool # <<>>
  /\ index \in 0..Len(catSpeciesPool) - 1
  /\ owner \in Users
  /\ catSpeciesPool' = SwapAndPop(catSpeciesPool, index)
  /\ generatedCats' = Append(generatedCats,
                        [species |-> catSpeciesPool[index + 1], owner |-> owner])

(* Drawing moves one species from the pool to the cats. *)
LEMMA DrawStep ==
  ASSUME BoxInv, NEW index, NEW owner, Draws(index, owner)
  PROVE  /\ catSpeciesPool' \in Seq(Species) /\ generatedCats' \in Seq(Cats)
         /\ Shared'
  <1> DEFINE n == Len(catSpeciesPool)
             m == Len(generatedCats)
             x == catSpeciesPool[index + 1]
             cat == [species |-> x, owner |-> owner]
  <1>1. /\ catSpeciesPool \in Seq(Species) /\ generatedCats \in Seq(Cats)
        /\ n \in Nat /\ m \in Nat
        /\ index + 1 \in 1..n /\ n - 1 \in Nat
    BY DEF BoxInv, BoxTypeOK, Draws
  <1>2. x \in Species /\ cat \in Cats /\ cat.species = x
    BY <1>1 DEF Cats, Draws
  <1>3. /\ generatedCats' \in Seq(Cats) /\ Len(generatedCats') = m + 1
        /\ generatedCats'[m + 1] = cat
        /\ \A c \in 1..m : generatedCats'[c] = generatedCats[c]
    BY <1>1, <1>2 DEF Draws
  <1>4. /\ catSpeciesPool' \in Seq(Species) /\ Len(catSpeciesPool') = n - 1
        /\ \A p \in 1..n - 1 : \E q \in 1..n :
             q # index + 1 /\ catSpeciesPool'[p] = catSpeciesPool[q]
        /\ \A q \in 1..n : q # index + 1 =>
             \E p \in 1..n - 1 : catSpeciesPool'[p] = catSpeciesPool[q]
        /\ (\A p, q \in 1..n : catSpeciesPool[p] = catSpeciesPool[q] => p = q) =>
             \A p, q \in 1..n - 1 : catSpeciesPool'[p] = catSpeciesPool'[q] => p = q
    <2>1. index \in 0..Len(catSpeciesPool) - 1
          /\ catSpeciesPool' = SwapAndPop(catSpeciesPool, index)
      BY DEF Draws
    <2>2. KeepsOthers(catSpeciesPool', catSpeciesPool, index, Species)
      BY <1>1, <2>1, SwapAndPopKeepsOthers
    <2> QED BY <2>2 DEF KeepsOthers
  <1> HIDE DEF n, m, x, cat
  <1>5. /\ n + m = Len(CatsSpecies)
        /\ \A p, q \in 1..n : catSpeciesPool[p] = catSpeciesPool[q] => p = q
        /\ \A c, d \in 1..m : generatedCats[c].species = generatedCats[d].species => c = d
        /\ \A p \in 1..n, c \in 1..m : catSpeciesPool[p] # generatedCats[c].species
        /\ \A s \in Species : \/ \E p \in 1..n : catSpeciesPool[p] = s
                              \/ \E c \in 1..m : generatedCats[c].species = s
    BY DEF BoxInv, Shared, n, m
  <1>6. \A q \in 1..n : q # index + 1 => catSpeciesPool[q] # x
    BY <1>1, <1>5 DEF x
  <1>7. \A c \in 1..m : generatedCats[c].species # x
    BY <1>1, <1>5 DEF x
  <1>8. \A c \in 1..m + 1 : c \in 1..m \/ c = m + 1
    BY <1>1
  <1>9. ASSUME NEW c \in 1..m + 1, NEW d \in 1..m + 1,
               generatedCats'[c].species = generatedCats'[d].species
        PROVE  c = d
    BY <1>2, <1>3, <1>5, <1>7, <1>8, <1>9
  <1>10. ASSUME NEW p \in 1..n - 1, NEW c \in 1..m + 1
         PROVE  catSpeciesPool'[p] # generatedCats'[c].species
    <2>1. PICK q \in 1..n : q # index + 1 /\ catSpeciesPool'[p] = catSpeciesPool[q]
      BY <1>4
    <2>2. CASE c \in 1..m
      BY <1>3, <1>5, <2>1, <2>2
    <2>3. CASE c = m + 1
      BY <1>2, <1>3, <1>6, <2>1, <2>3
    <2> QED BY <1>8, <2>2, <2>3
  <1>11. ASSUME NEW s \in Species
         PROVE  \/ \E p \in 1..n - 1 : catSpeciesPool'[p] = s
                \/ \E c \in 1..m + 1 : generatedCats'[c].species = s
    <2>1. m + 1 \in 1..m + 1 /\ \A c \in 1..m : c \in 1..m + 1
      BY <1>1
    <2>2. CASE s = x
      BY <1>2, <1>3, <2>1, <2>2
    <2>3. ASSUME NEW q \in 1..n, catSpeciesPool[q] = s, s # x
          PROVE  \E p \in 1..n - 1 : catSpeciesPool'[p] = s
      BY <1>1, <1>4, <2>3 DEF x
    <2>4. ASSUME NEW c \in 1..m, generatedCats[c].species = s
          PROVE  \E d \in 1..m + 1 : generatedCats'[d].species = s
      BY <1>3, <2>1, <2>4
    <2> QED BY <1>5, <2>2, <2>3, <2>4
  <1>12. (n - 1) + (m + 1) = Len(CatsSpecies)
    BY <1>1, <1>5
  <1>13. Shared'
    BY <1>3, <1>4, <1>5, <1>9, <1>10, <1>11, <1>12 DEF Shared
  <1> QED BY <1>3, <1>4, <1>13

groupVars == <<vars, oracleVars, boxVars>>

(* generateBlindBoxCat draws, and issues an asset that exists.              *)
LEMMA GenerateStep ==
  ASSUME BoxInv, NEW caller \in Users, NEW id \in RequestIds, GenerateBlindBoxCat(caller, id)
  PROVE  BoxInv' /\ IssuerNext
  <1> DEFINE index == resultMap[id] % Len(catSpeciesPool)
             owner == requestToSender[id]
  <1>1. /\ catSpeciesPool \in Seq(Species) /\ generatedCats \in Seq(Cats)
        /\ resultMap[id] \in Nat /\ owner \in Users \cup {None}
        /\ catSpeciesPool # <<>> /\ owner # None
    BY DEF BoxInv, BoxTypeOK, OracleTypeOK, GenerateBlindBoxCat
  <1>2. Len(catSpeciesPool) \in Nat \ {0} /\ Len(generatedCats) \in Nat
    BY <1>1
  <1>3. index \in 0..Len(catSpeciesPool) - 1
    BY <1>1, <1>2
  <1>4. owner \in Users
    BY <1>1
  <1>5. /\ catSpeciesPool' = SwapAndPop(catSpeciesPool, index)
        /\ generatedCats' = Append(generatedCats,
             [species |-> catSpeciesPool[index + 1], owner |-> owner])
        /\ Issue(caller, owner, Len(generatedCats))
        /\ UNCHANGED <<requests, validIds, resultMap, requestToSender>>
    BY DEF GenerateBlindBoxCat, RemoveCatSpecies, oracleVars
  <1> HIDE DEF index, owner
  <1>6. Draws(index, owner)
    BY <1>1, <1>3, <1>4, <1>5 DEF Draws
  <1>7. BoxInv'
    BY <1>5, <1>6, DrawStep DEF BoxInv, BoxTypeOK, OracleTypeOK, RequestIds
  <1>8. Len(generatedCats) \in Assets
    <2>1. Len(catSpeciesPool) + Len(generatedCats) = Len(CatsSpecies)
      BY DEF BoxInv, Shared
    <2>2. Len(CatsSpecies) \in Nat
      BY BoxAssumption
    <2>3. Len(generatedCats) + 1 \in 1..Len(CatsSpecies)
      BY <1>2, <2>1, <2>2
    <2>4. (Len(generatedCats) + 1) - 1 \in Assets
      BY <2>3, BoxAssumption
    <2> QED BY <1>2, <2>4
  <1>9. IssuerNext
    BY <1>4, <1>5, <1>8, PartiesAssumption DEF IssuerNext
  <1> QED BY <1>7, <1>9

(* A step of box, oracle and assets keeps the invariant and is one of the assets. *)
LEMMA GroupStep ==
  ASSUME BoxInv, [GroupNext]_groupVars
  PROVE  BoxInv' /\ [Next]_vars
  <1>1. ASSUME UNCHANGED <<requests, validIds, resultMap>>, UNCHANGED boxVars PROVE BoxInv'
    BY <1>1, SMTT(20) DEF BoxInv, BoxTypeOK, OracleTypeOK, RequestIds, Shared, boxVars
  <1>2. ASSUME NEW caller \in Users, RequestNewBlindboxCat(caller)
        PROVE  BoxInv' /\ UNCHANGED vars
    <2>1. /\ requestToSender' = [requestToSender EXCEPT ![requests'] = caller]
          /\ UNCHANGED <<vars, catSpeciesPool, generatedCats>> /\ OracleNext
      BY <1>2 DEF RequestNewBlindboxCat, OracleNext
    <2>2. OracleTypeOK'
      BY <2>1, OracleTypes DEF BoxInv, BoxTypeOK
    <2> QED BY <2>1, <2>2 DEF BoxInv, BoxTypeOK, RequestIds, Shared
  <1>3. ASSUME OracleNext, UNCHANGED <<vars, boxVars>>
        PROVE  BoxInv' /\ UNCHANGED vars
    <2>1. OracleTypeOK'
      BY <1>3, OracleTypes DEF BoxInv, BoxTypeOK
    <2> QED BY <1>3, <2>1 DEF BoxInv, BoxTypeOK, RequestIds, Shared, boxVars
  <1>4. CASE GroupNext
    BY <1>1, <1>2, <1>3, <1>4, GenerateStep DEF GroupNext, BoxNext, oracleVars, Next
  <1>5. CASE UNCHANGED groupVars
    BY <1>1, <1>5 DEF groupVars, oracleVars
  <1> QED BY <1>4, <1>5

(* The invariant of the box holds in every reachable state. *)
LEMMA BoxInvariance == BoxSpec => []BoxInv
  <1>1. BoxInv /\ [GroupNext]_groupVars => BoxInv'
    BY GroupStep
  <1> QED BY <1>1, BoxInitInv, PTL DEF BoxSpec, groupVars

(* Pool, cats and requests keep their types: a cat is of one of the species *)
(* and belongs to a user.                                                   *)
THEOREM BlindBoxTypes == BoxSpec => []BoxTypeOK
  <1>1. BoxInv => BoxTypeOK
    BY DEF BoxInv
  <1> QED BY <1>1, BoxInvariance, PTL

(* A blind box is a BAC002: it issues its cats as an issuer may, so its      *)
(* lists enumerate them, and no approval of a cat outlives its ownership.    *)
THEOREM BlindBoxImplementsBAC002 == BoxSpec => Spec
  <1>1. BoxInit => Init
    BY DEF BoxInit
  <1>2. BoxInv /\ [GroupNext]_groupVars => [Next]_vars
    BY GroupStep
  <1> QED BY <1>1, <1>2, BoxInvariance, PTL DEF BoxSpec, Spec, groupVars

(* generateBlindBoxCat draws no species twice and loses none, whatever       *)
(* numbers the oracle gives and however often a request is used again.       *)
THEOREM EachSpeciesIsDrawnOnce == BoxSpec => []SpeciesDrawnOnce
  <1>1. BoxInv => SpeciesDrawnOnce
    <2> SUFFICES ASSUME BoxInv, NEW i \in 1..Len(CatsSpecies)
                 PROVE  LET inPool == {p \in 1..Len(catSpeciesPool) :
                                         catSpeciesPool[p] = CatsSpecies[i]}
                            inCats == {c \in 1..Len(generatedCats) :
                                         generatedCats[c].species = CatsSpecies[i]}
                        IN  \/ inCats = {} /\ \E p \in inPool : inPool = {p}
                            \/ inPool = {} /\ \E c \in inCats : inCats = {c}
      BY DEF SpeciesDrawnOnce
    <2>1. CatsSpecies[i] \in Species
      BY DEF Species
    <2> QED BY <2>1, SMTT(20) DEF BoxInv, Shared
  <1> QED BY <1>1, BoxInvariance, PTL
=============================================================================
