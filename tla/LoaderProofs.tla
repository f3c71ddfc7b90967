---------------------------- MODULE LoaderProofs ----------------------------
(***************************************************************************)
(* What holds of the registry for every set of ids, owners, names, types   *)
(* and namespaces, and of every load, whatever the programs are: a load is *)
(* a run of the registry, so what is proved of the registry holds of it,   *)
(* and what core requires stays met.                                       *)
(***************************************************************************)
EXTENDS Loader, TLAPS

-----------------------------------------------------------------------------
(* The vectors *)

\* A position of a sequence holds one of its elements.
LEMMA ElementType ==
    ASSUME NEW S, NEW seq \in Seq(S), NEW i \in 1..Len(seq)
    PROVE  seq[i] \in S
OBVIOUS

\* Overwriting a position keeps a sequence's length and its other elements.
LEMMA OverwriteSeq ==
    ASSUME NEW S, NEW seq \in Seq(S), NEW i \in 1..Len(seq), NEW e \in S
    PROVE  /\ [seq EXCEPT ![i] = e] \in Seq(S)
           /\ Len([seq EXCEPT ![i] = e]) = Len(seq)
           /\ [seq EXCEPT ![i] = e][i] = e
           /\ \A j \in 1..Len(seq) : j # i => [seq EXCEPT ![i] = e][j] = seq[j]
OBVIOUS

\* Appending keeps every element where it was and adds one at the end.
LEMMA AppendSeq ==
    ASSUME NEW S, NEW seq \in Seq(S), NEW e \in S
    PROVE  /\ Append(seq, e) \in Seq(S)
           /\ Len(Append(seq, e)) = Len(seq) + 1
           /\ Append(seq, e)[Len(seq) + 1] = e
           /\ \A j \in 1..Len(seq) : Append(seq, e)[j] = seq[j]
OBVIOUS

\* The store of a kind, and which kinds share one.
LEMMA StoreOfKind ==
    /\ \A k \in Kinds : StoreOf(k) \in Stores
    /\ \A k, l \in Kinds : StoreOf(k) = StoreOf(l) =>
         k = l \/ (k \in {"class", "trait"} /\ l \in {"class", "trait"})
    /\ \A k \in Kinds : StoreOf(k) = "classes" <=> k \in {"class", "trait"}
<1>1. /\ StoreOf("schema") = "schemas" /\ StoreOf("class") = "classes"
      /\ StoreOf("trait") = "classes" /\ StoreOf("enum") = "enums"
      /\ StoreOf("global") = "globals" /\ StoreOf("object") = "objects"
  BY DEF StoreOf
<1> QED BY <1>1 DEF Kinds, Stores

-----------------------------------------------------------------------------
(* The gate *)

\* The three things an offer may do to the ledger.
LEMMA OfferCases ==
    ASSUME LedgerTypeOK, NEW d \in Declaration, NEW replaces \in Annotations,
           Offer(d, replaces)
    PROVE  /\ last' \in [answer : Answers, named : Annotations]
           /\ last'.answer = Verdict(d, replaces)
           /\ last'.named = replaces
           /\ \/ /\ Verdict(d, replaces) = "Fresh"
                 /\ At(d.space, d.id) = 0
                 /\ declarations' = Append(declarations, d)
                 /\ declaration_index' = [declaration_index EXCEPT
                                            ![<<d.space, d.id>>] = Len(declarations) + 1]
              \/ /\ Verdict(d, replaces) = "Replaced"
                 /\ At(d.space, d.id) \in 1..Len(declarations)
                 /\ Existing(d.space, d.id).owner = replaces
                 /\ ~Existing(d.space, d.id).sealed
                 /\ declarations' = [declarations EXCEPT ![At(d.space, d.id)] = d]
                 /\ declaration_index' = declaration_index
              \/ /\ Verdict(d, replaces) \in Refusals
                 /\ declarations' = declarations
                 /\ declaration_index' = declaration_index
<1>1. Verdict(d, replaces) \in Answers
  BY DEF Verdict, Answers, Refusals
<1>2. last' \in [answer : Answers, named : Annotations] /\ last'.answer = Verdict(d, replaces)
      /\ last'.named = replaces
  BY <1>1 DEF Offer
<1>3. At(d.space, d.id) \in 0..Len(declarations)
  BY DEF LedgerTypeOK, Declaration
<1>4. CASE Verdict(d, replaces) = "Fresh"
  BY <1>2, <1>4, SMT DEF Offer, Verdict, Refusals
<1>5. CASE Verdict(d, replaces) = "Replaced"
  <2>1. At(d.space, d.id) # 0 /\ Existing(d.space, d.id).owner = replaces
        /\ ~Existing(d.space, d.id).sealed
    BY <1>5 DEF Verdict, Existing
  <2>2. At(d.space, d.id) \in 1..Len(declarations)
    BY <1>3, <2>1 DEF LedgerTypeOK
  <2> QED BY <1>2, <1>5, <2>1, <2>2 DEF Offer, Refusals
<1>6. CASE Verdict(d, replaces) \in Refusals
  BY <1>2, <1>6 DEF Offer, Refusals
<1>7. Verdict(d, replaces) \in {"Fresh", "Replaced"} \cup Refusals
  BY DEF Verdict, Refusals
<1> QED BY <1>4, <1>5, <1>6, <1>7

\* An offer keeps the ledger well typed and indexed.
LEMMA OfferKeepsLedger ==
    ASSUME LedgerTypeOK, LedgerIndexed, NEW d \in Declaration,
           NEW replaces \in Annotations, Offer(d, replaces)
    PROVE  /\ LedgerTypeOK' /\ LedgerIndexed'
           /\ \A s \in Spaces, i \in Ids : At(s, i) # 0 => declaration_index'[<<s, i>>] = At(s, i)
           /\ Verdict(d, replaces) \notin Refusals =>
                /\ declaration_index'[<<d.space, d.id>>] # 0
                /\ Existing(d.space, d.id)' = d
           /\ \A s \in Spaces, i \in Ids :
                (<<s, i>> # <<d.space, d.id>> /\ At(s, i) # 0) =>
                    Existing(s, i)' = Existing(s, i)
<1> USE DEF At, Existing
<1> DEFINE key == <<d.space, d.id>>
<1>0. key \in Spaces \X Ids /\ d.space \in Spaces /\ d.id \in Ids
  BY DEF Declaration
<1>1. CASE /\ Verdict(d, replaces) = "Fresh"
           /\ At(d.space, d.id) = 0
           /\ declarations' = Append(declarations, d)
           /\ declaration_index' = [declaration_index EXCEPT ![key] = Len(declarations) + 1]
  <2>1. /\ declarations' \in Seq(Declaration)
        /\ Len(declarations') = Len(declarations) + 1
        /\ declarations'[Len(declarations) + 1] = d
        /\ \A j \in 1..Len(declarations) : declarations'[j] = declarations[j]
    BY <1>1, AppendSeq DEF LedgerTypeOK
  <2>2. /\ declaration_index' \in [Spaces \X Ids -> Nat]
        /\ declaration_index'[key] = Len(declarations) + 1
        /\ \A k \in Spaces \X Ids : k # key => declaration_index'[k] = declaration_index[k]
    BY <1>0, <1>1, SMT DEF LedgerTypeOK
  <2>3. LedgerTypeOK'
    <3>1. ASSUME NEW s \in Spaces, NEW i \in Ids
          PROVE  declaration_index'[<<s, i>>] \in 0..Len(declarations')
      <4>1. CASE <<s, i>> = key
        BY <2>1, <2>2, <4>1 DEF LedgerTypeOK
      <4>2. CASE <<s, i>> # key
        BY <2>1, <2>2, <4>2 DEF LedgerTypeOK
      <4> QED BY <4>1, <4>2
    <3> QED BY <2>1, <2>2, <3>1 DEF LedgerTypeOK
  <2>4. LedgerIndexed'
    <3>1. ASSUME NEW s \in Spaces, NEW i \in Ids, declaration_index'[<<s, i>>] # 0
          PROVE  Existing(s, i)'.space = s /\ Existing(s, i)'.id = i
      <4>1. CASE <<s, i>> = key
        <5>1. s = d.space /\ i = d.id
          BY <4>1
        <5> QED BY <2>1, <2>2, <4>1, <5>1
      <4>2. CASE <<s, i>> # key
        <5>1. declaration_index'[<<s, i>>] = declaration_index[<<s, i>>]
          BY <2>2, <4>2
        <5>2. declaration_index[<<s, i>>] \in 1..Len(declarations)
          BY <3>1, <5>1 DEF LedgerTypeOK
        <5>3. /\ declarations[declaration_index[<<s, i>>]].space = s
              /\ declarations[declaration_index[<<s, i>>]].id = i
          BY <5>2 DEF LedgerIndexed
        <5> QED BY <2>1, <5>1, <5>2, <5>3
      <4> QED BY <4>1, <4>2
    <3>2. ASSUME NEW p \in 1..Len(declarations')
          PROVE  declaration_index'[<<declarations'[p].space, declarations'[p].id>>] = p
      <4>1. CASE p = Len(declarations) + 1
        BY <2>1, <2>2, <4>1
      <4>2. CASE p \in 1..Len(declarations)
        <5>1. declarations[p] \in Declaration
          BY <4>2, ElementType DEF LedgerTypeOK
        <5>2. declaration_index[<<declarations[p].space, declarations[p].id>>] = p
          BY <4>2 DEF LedgerIndexed, LedgerTypeOK
        <5>3. <<declarations[p].space, declarations[p].id>> # key
          BY <4>2, <5>2, <1>1, SMTT(30)
        <5> QED BY <2>1, <2>2, <4>2, <5>1, <5>2, <5>3 DEF Declaration
      <4> QED BY <2>1, <4>1, <4>2 DEF LedgerTypeOK
    <3> QED BY <2>1, <3>1, <3>2 DEF LedgerIndexed
  <2>5. \A s \in Spaces, i \in Ids : At(s, i) # 0 =>
            /\ <<s, i>> # key
            /\ declaration_index'[<<s, i>>] = At(s, i)
            /\ At(s, i) \in 1..Len(declarations)
    <3>1. SUFFICES ASSUME NEW s \in Spaces, NEW i \in Ids, declaration_index[<<s, i>>] # 0
                   PROVE  /\ <<s, i>> # key
                          /\ declaration_index'[<<s, i>>] = declaration_index[<<s, i>>]
                          /\ declaration_index[<<s, i>>] \in 1..Len(declarations)
      OBVIOUS
    <3>2. <<s, i>> # key
      BY <1>1, <3>1
    <3> QED BY <2>2, <3>1, <3>2 DEF LedgerTypeOK
  <2> QED BY <2>1, <2>2, <2>3, <2>4, <2>5
<1>2. CASE /\ Verdict(d, replaces) = "Replaced"
           /\ At(d.space, d.id) \in 1..Len(declarations)
           /\ declarations' = [declarations EXCEPT ![At(d.space, d.id)] = d]
           /\ declaration_index' = declaration_index
  <2> DEFINE slot == declaration_index[key]
  <2>1. /\ declarations' \in Seq(Declaration)
        /\ Len(declarations') = Len(declarations)
        /\ declarations'[slot] = d
        /\ \A j \in 1..Len(declarations) : j # slot => declarations'[j] = declarations[j]
    BY <1>2, OverwriteSeq DEF LedgerTypeOK
  <2>2. LedgerTypeOK'
    BY <1>2, <2>1 DEF LedgerTypeOK
  <2>3. ASSUME NEW s \in Spaces, NEW i \in Ids, At(s, i) # 0, <<s, i>> # key
        PROVE  At(s, i) # slot /\ At(s, i) \in 1..Len(declarations)
    <3>1. declaration_index[<<s, i>>] \in 1..Len(declarations)
      BY <2>3 DEF LedgerTypeOK
    <3>2. /\ declarations[declaration_index[<<s, i>>]].space = s
          /\ declarations[declaration_index[<<s, i>>]].id = i
      BY <3>1 DEF LedgerIndexed
    <3>3. declarations[slot].space = d.space /\ declarations[slot].id = d.id
      BY <1>0, <1>2 DEF LedgerIndexed
    <3> QED BY <2>3, <3>1, <3>2, <3>3
  <2>4. LedgerIndexed'
    <3>1. ASSUME NEW s \in Spaces, NEW i \in Ids, declaration_index'[<<s, i>>] # 0
          PROVE  Existing(s, i)'.space = s /\ Existing(s, i)'.id = i
      <4>1. CASE <<s, i>> = key
        <5>1. s = d.space /\ i = d.id
          BY <4>1
        <5> QED BY <1>2, <2>1, <4>1, <5>1
      <4>2. CASE <<s, i>> # key
        <5>1. declaration_index[<<s, i>>] # 0
          BY <1>2, <3>1
        <5>2. /\ declarations[declaration_index[<<s, i>>]].space = s
              /\ declarations[declaration_index[<<s, i>>]].id = i
          BY <5>1 DEF LedgerIndexed
        <5>3. declaration_index[<<s, i>>] # slot
              /\ declaration_index[<<s, i>>] \in 1..Len(declarations)
          BY <2>3, <4>2, <5>1
        <5> QED BY <1>2, <2>1, <5>2, <5>3
      <4> QED BY <4>1, <4>2
    <3>2. ASSUME NEW p \in 1..Len(declarations')
          PROVE  declaration_index'[<<declarations'[p].space, declarations'[p].id>>] = p
      <4>1. p \in DOMAIN declarations /\ p \in 1..Len(declarations)
        BY <2>1 DEF LedgerTypeOK
      <4>2. declaration_index[<<declarations[p].space, declarations[p].id>>] = p
        BY <4>1 DEF LedgerIndexed
      <4>3. CASE p = slot
        BY <1>2, <2>1, <4>3
      <4>4. CASE p # slot
        BY <1>2, <2>1, <4>1, <4>2, <4>4
      <4> QED BY <4>3, <4>4
    <3> QED BY <2>1, <3>1, <3>2 DEF LedgerIndexed
  <2> QED BY <1>2, <2>1, <2>2, <2>3, <2>4, SMTT(30)
<1>3. CASE /\ Verdict(d, replaces) \in Refusals
           /\ declarations' = declarations
           /\ declaration_index' = declaration_index
  BY <1>3 DEF LedgerTypeOK, LedgerIndexed
<1> QED BY <1>1, <1>2, <1>3, OfferCases

-----------------------------------------------------------------------------
(* The stores *)

\* What an index finds is a declaration of that kind and id, at a position of
\* its store that no other kind and id is indexed at.
LEMMA IndexedSlot ==
    ASSUME StoresTypeOK, StoresIndexed, NEW k \in Kinds, NEW i \in Ids, index[k][i] # 0
    PROVE  /\ StoreOf(k) \in Stores
           /\ index[k][i] \in 1..Len(stores[StoreOf(k)])
           /\ Stored(k, i) \in Decl
           /\ Stored(k, i).kind = k
           /\ Stored(k, i).id = i
           /\ \A l \in Kinds, j \in Ids :
                (StoreOf(l) = StoreOf(k) /\ index[l][j] = index[k][i]) => l = k /\ j = i
<1>1. StoreOf(k) \in Stores
  BY StoreOfKind
<1>2. index[k][i] \in 1..Len(stores[StoreOf(k)])
  BY DEF StoresTypeOK
<1>3. stores[StoreOf(k)] \in Seq(Decl)
  BY <1>1 DEF StoresTypeOK
<1>4. Stored(k, i) \in Decl
  BY <1>2, <1>3, ElementType DEF Stored
<1>5. Stored(k, i).kind = k /\ Stored(k, i).id = i
  BY DEF StoresIndexed
<1>6. ASSUME NEW l \in Kinds, NEW j \in Ids,
             StoreOf(l) = StoreOf(k), index[l][j] = index[k][i]
      PROVE  l = k /\ j = i
  <2>1. Stored(l, j).kind = l /\ Stored(l, j).id = j
    BY <1>6 DEF StoresIndexed
  <2>2. Stored(l, j) = Stored(k, i)
    BY <1>6 DEF Stored
  <2> QED BY <1>5, <2>1, <2>2
<1> QED BY <1>1, <1>2, <1>4, <1>5, <1>6

\* Overwriting the declaration an index finds with one of the same kind and id
\* keeps the stores well typed and indexed, and every other declaration.
LEMMA Overwrite ==
    ASSUME StoresTypeOK, StoresIndexed, NEW decl \in Decl,
           index[decl.kind][decl.id] # 0,
           stores' = [stores EXCEPT ![StoreOf(decl.kind)][index[decl.kind][decl.id]] = decl],
           index' = index
    PROVE  /\ StoresTypeOK' /\ StoresIndexed'
           /\ Stored(decl.kind, decl.id)' = decl
           /\ \A k \in Kinds, i \in Ids :
                ((k # decl.kind \/ i # decl.id) /\ index[k][i] # 0) =>
                    Stored(k, i)' = Stored(k, i)
<1> DEFINE kind == decl.kind
           id == decl.id
           s == StoreOf(kind)
           slot == index[kind][id]
<1>1. kind \in Kinds /\ id \in Ids
  BY DEF Decl
<1>2. s \in Stores /\ slot \in 1..Len(stores[s]) /\ stores[s] \in Seq(Decl)
  BY <1>1, IndexedSlot DEF StoresTypeOK
<1>3. /\ stores' \in [Stores -> Seq(Decl)]
      /\ Len(stores'[s]) = Len(stores[s])
      /\ stores'[s][slot] = decl
      /\ \A j \in 1..Len(stores[s]) : j # slot => stores'[s][j] = stores[s][j]
      /\ \A t \in Stores : t # s => stores'[t] = stores[t]
  <2>1. stores' = [stores EXCEPT ![s] = [stores[s] EXCEPT ![slot] = decl]]
    BY DEF StoresTypeOK
  <2>2. stores'[s] = [stores[s] EXCEPT ![slot] = decl]
    BY <1>2, <2>1 DEF StoresTypeOK
  <2>3. /\ [stores[s] EXCEPT ![slot] = decl] \in Seq(Decl)
        /\ Len([stores[s] EXCEPT ![slot] = decl]) = Len(stores[s])
        /\ [stores[s] EXCEPT ![slot] = decl][slot] = decl
        /\ \A j \in 1..Len(stores[s]) :
             j # slot => [stores[s] EXCEPT ![slot] = decl][j] = stores[s][j]
    BY <1>2, OverwriteSeq
  <2> HIDE DEF s, slot
  <2>4. stores \in [Stores -> Seq(Decl)]
    BY DEF StoresTypeOK
  <2>5. \A t \in Stores : t # s => stores'[t] = stores[t]
    BY <2>1, <2>4
  <2>6. stores' \in [Stores -> Seq(Decl)]
    BY <1>2, <2>1, <2>3, <2>4
  <2> QED BY <2>2, <2>3, <2>5, <2>6
<1>4. \A t \in Stores : Len(stores'[t]) = Len(stores[t])
  BY <1>3
<1>5. StoresTypeOK'
  <2>1. \A k \in Kinds, i \in Ids : index[k][i] \in 0..Len(stores'[StoreOf(k)])
    BY <1>4, StoreOfKind DEF StoresTypeOK
  <2> QED BY <1>3, <2>1 DEF StoresTypeOK
<1>6. Stored(kind, id)' = decl
  BY <1>3 DEF Stored
<1>7. ASSUME NEW k \in Kinds, NEW i \in Ids, k # kind \/ i # id, index[k][i] # 0
      PROVE  Stored(k, i)' = Stored(k, i)
  <2>1. ~(StoreOf(k) = s /\ index[k][i] = slot)
    BY <1>1, <1>7, IndexedSlot
  <2>2. index[k][i] \in 1..Len(stores[StoreOf(k)]) /\ StoreOf(k) \in Stores
    BY <1>7, IndexedSlot
  <2> QED BY <1>3, <2>1, <2>2 DEF Stored
<1>8. StoresIndexed'
  <2>1. ASSUME NEW k \in Kinds, NEW i \in Ids, index[k][i] # 0
        PROVE  Stored(k, i)'.kind = k /\ Stored(k, i)'.id = i
    <3>1. CASE k = kind /\ i = id
      BY <1>6, <3>1
    <3>2. CASE k # kind \/ i # id
      BY <1>7, <2>1, <3>2 DEF StoresIndexed
    <3> QED BY <3>1, <3>2
  <2>2. ASSUME NEW t \in Stores, NEW p \in 1..Len(stores[t])
        PROVE  /\ StoreOf(stores'[t][p].kind) = t
               /\ index[stores'[t][p].kind][stores'[t][p].id] = p
    <3>1. CASE t = s /\ p = slot
      BY <1>3, <3>1
    <3>2. CASE ~(t = s /\ p = slot)
      <4>1. stores'[t][p] = stores[t][p]
        BY <1>3, <2>2, <3>2
      <4>2. p \in DOMAIN stores[t]
        BY <2>2 DEF StoresTypeOK
      <4> QED BY <4>1, <4>2 DEF StoresIndexed
    <3> QED BY <3>1, <3>2
  <2>3. \A t \in Stores : DOMAIN stores'[t] = 1..Len(stores[t])
    BY <1>3, <1>4
  <2> QED BY <2>1, <2>2, <2>3 DEF StoresIndexed
<1> QED BY <1>5, <1>6, <1>7, <1>8

\* Appending a declaration no index finds, and indexing it, does the same.
LEMMA Insert ==
    ASSUME StoresTypeOK, StoresIndexed, NEW decl \in Decl,
           index[decl.kind][decl.id] = 0,
           stores' = [stores EXCEPT ![StoreOf(decl.kind)] = Append(@, decl)],
           index' = [index EXCEPT ![decl.kind][decl.id] =
                       Len(stores[StoreOf(decl.kind)]) + 1]
    PROVE  /\ StoresTypeOK' /\ StoresIndexed'
           /\ index'[decl.kind][decl.id] # 0
           /\ Stored(decl.kind, decl.id)' = decl
           /\ \A k \in Kinds, i \in Ids :
                (k # decl.kind \/ i # decl.id) =>
                    /\ index'[k][i] = index[k][i]
                    /\ index[k][i] # 0 => Stored(k, i)' = Stored(k, i)
<1> DEFINE kind == decl.kind
           id == decl.id
           s == StoreOf(kind)
           n == Len(stores[s])
<1>1. kind \in Kinds /\ id \in Ids /\ s \in Stores
  BY StoreOfKind DEF Decl
<1>2. stores[s] \in Seq(Decl) /\ n \in Nat
  BY <1>1 DEF StoresTypeOK
<1>3. /\ stores' \in [Stores -> Seq(Decl)]
      /\ Len(stores'[s]) = n + 1
      /\ stores'[s][n + 1] = decl
      /\ \A j \in 1..n : stores'[s][j] = stores[s][j]
      /\ \A t \in Stores : t # s => stores'[t] = stores[t]
  <2>1. stores' = [stores EXCEPT ![s] = Append(stores[s], decl)]
    BY DEF StoresTypeOK
  <2>2. stores'[s] = Append(stores[s], decl)
    BY <1>1, <2>1 DEF StoresTypeOK
  <2>3. /\ Append(stores[s], decl) \in Seq(Decl)
        /\ Len(Append(stores[s], decl)) = n + 1
        /\ Append(stores[s], decl)[n + 1] = decl
        /\ \A j \in 1..n : Append(stores[s], decl)[j] = stores[s][j]
    BY <1>2, AppendSeq
  <2> HIDE DEF s, n
  <2> QED BY <1>1, <2>1, <2>2, <2>3 DEF StoresTypeOK
<1>4. /\ index' \in [Kinds -> [Ids -> Nat]]
      /\ index'[kind][id] = n + 1
      /\ \A k \in Kinds, i \in Ids : (k # kind \/ i # id) => index'[k][i] = index[k][i]
  BY <1>1, <1>2 DEF StoresTypeOK
<1>5. \A t \in Stores : Len(stores[t]) \in Nat /\ DOMAIN stores[t] = 1..Len(stores[t])
  BY DEF StoresTypeOK
<1>6. StoresTypeOK'
  <2>1. ASSUME NEW k \in Kinds, NEW i \in Ids
        PROVE  index'[k][i] \in 0..Len(stores'[StoreOf(k)])
    <3>1. CASE k = kind /\ i = id
      BY <1>2, <1>3, <1>4, <3>1
    <3>2. CASE k # kind \/ i # id
      <4>1. index'[k][i] = index[k][i] /\ index[k][i] \in 0..Len(stores[StoreOf(k)])
        BY <1>4, <3>2 DEF StoresTypeOK
      <4>2. StoreOf(k) \in Stores
        BY StoreOfKind
      <4>3. CASE StoreOf(k) = s
        BY <1>2, <1>3, <4>1, <4>3
      <4>4. CASE StoreOf(k) # s
        BY <1>3, <4>1, <4>2, <4>4
      <4> QED BY <4>3, <4>4
    <3> QED BY <3>1, <3>2
  <2> QED BY <1>3, <1>4, <2>1 DEF StoresTypeOK
<1>7. Stored(kind, id)' = decl
  BY <1>3, <1>4 DEF Stored
<1>8. ASSUME NEW k \in Kinds, NEW i \in Ids, k # kind \/ i # id, index[k][i] # 0
      PROVE  Stored(k, i)' = Stored(k, i)
  <2>1. index[k][i] \in 1..Len(stores[StoreOf(k)]) /\ StoreOf(k) \in Stores
    BY <1>8, IndexedSlot
  <2>2. index'[k][i] = index[k][i]
    BY <1>4, <1>8
  <2>3. stores'[StoreOf(k)][index[k][i]] = stores[StoreOf(k)][index[k][i]]
    BY <1>3, <2>1
  <2> QED BY <2>2, <2>3 DEF Stored
<1>9. StoresIndexed'
  <2>1. ASSUME NEW k \in Kinds, NEW i \in Ids, index'[k][i] # 0
        PROVE  Stored(k, i)'.kind = k /\ Stored(k, i)'.id = i
    <3>1. CASE k = kind /\ i = id
      BY <1>7, <3>1
    <3>2. CASE k # kind \/ i # id
      BY <1>4, <1>8, <2>1, <3>2 DEF StoresIndexed
    <3> QED BY <3>1, <3>2
  <2>2. ASSUME NEW t \in Stores, NEW p \in 1..Len(stores'[t])
        PROVE  /\ StoreOf(stores'[t][p].kind) = t
               /\ index'[stores'[t][p].kind][stores'[t][p].id] = p
    <3>1. CASE t = s /\ p = n + 1
      BY <1>3, <1>4, <3>1
    <3>2. CASE ~(t = s /\ p = n + 1)
      <4>1. stores'[t][p] = stores[t][p] /\ p \in 1..Len(stores[t])
        BY <1>2, <1>3, <2>2, <3>2
      <4>2. /\ StoreOf(stores[t][p].kind) = t
            /\ index[stores[t][p].kind][stores[t][p].id] = p
        BY <1>5, <4>1 DEF StoresIndexed
      <4>3. stores[t][p] \in Decl
        BY <4>1, ElementType DEF StoresTypeOK
      <4>4. stores[t][p].kind # kind \/ stores[t][p].id # id
        BY <1>5, <4>1, <4>2
      <4> QED BY <1>4, <4>1, <4>2, <4>3, <4>4 DEF Decl
    <3> QED BY <3>1, <3>2
  <2>3. \A t \in Stores : DOMAIN stores'[t] = 1..Len(stores'[t])
    BY <1>3
  <2> QED BY <2>1, <2>2, <2>3 DEF StoresIndexed
<1> QED BY <1>4, <1>6, <1>7, <1>8, <1>9

\* Storing a declaration replaces what its index found or adds to the end, and
\* leaves every other kind and id with the declaration it had.
LEMMA PutKeepsStores ==
    ASSUME StoresTypeOK, StoresIndexed, NEW decl \in Decl, Put(decl)
    PROVE  /\ StoresTypeOK' /\ StoresIndexed'
           /\ index'[decl.kind][decl.id] # 0
           /\ Stored(decl.kind, decl.id)' = decl
           /\ \A k \in Kinds, i \in Ids :
                (k # decl.kind \/ i # decl.id) =>
                    /\ index'[k][i] = index[k][i]
                    /\ index[k][i] # 0 => Stored(k, i)' = Stored(k, i)
<1>1. CASE index[decl.kind][decl.id] # 0
  BY <1>1, Overwrite DEF Put
<1>2. CASE index[decl.kind][decl.id] = 0
  BY <1>2, Insert DEF Put
<1> QED BY <1>1, <1>2

-----------------------------------------------------------------------------
(* The operations *)

\* A declaration marked root is a class, offered while no class of another id
\* is root.
RootAllowed(decl) ==
    decl.root => /\ decl.kind = "class"
                 /\ \A i \in DOMAIN stores["classes"] :
                      IsRootClass(i) => stores["classes"][i].id = decl.id

\* The four shapes of a step.
DeclareStep ==
    \E decl \in Decl, replaces \in Annotations :
        Declare(decl, replaces) /\ RootAllowed(decl)

GenericStep ==
    \E d \in Declaration, replaces \in Annotations :
        Offer(d, replaces) /\ d.space \in GenericSpaces /\ UNCHANGED <<stores, index>>

ExtendStep ==
    \E k \in Kinds, i \in Ids, new \in Members :
        /\ index[k][i] # 0
        /\ ExtendMembers(k, i, new)
        /\ last' \in [answer : Answers, named : Annotations]
        /\ UNCHANGED <<declarations, declaration_index, index>>

ReportStep ==
    last' \in [answer : Answers, named : Annotations] /\ UNCHANGED registry

\* Every operation is a step of one of the four shapes.
LEMMA StepShape ==
    Next => DeclareStep \/ GenericStep \/ ExtendStep \/ ReportStep
<1> SUFFICES ASSUME NEW id \in Ids,
                    \/ \E owner \in Owners, replaces \in Annotations :
                           \/ DeclareWithMembers(id, owner, replaces)
                           \/ DeclareWithoutMembers(id, owner, replaces)
                    \/ \E members \in Members : Extend(id, members)
             PROVE  DeclareStep \/ GenericStep \/ ExtendStep \/ ReportStep
  BY DEF Next
<1>1. ASSUME NEW owner \in Owners, NEW replaces \in Annotations,
             DeclareWithMembers(id, owner, replaces)
      PROVE  DeclareStep
  <2>1. PICK sealed \in BOOLEAN, members \in Members :
             \/ DeclareSchema(id, owner, sealed, members, replaces)
             \/ \E parent \in Parents \cup {Undeclared} : \E root \in Rootness(parent) :
                    DeclareClass(id, owner, sealed, root, parent, members, replaces)
             \/ DeclareTrait(id, owner, sealed, members, replaces)
    BY <1>1 DEF DeclareWithMembers
  <2>2. CASE DeclareSchema(id, owner, sealed, members, replaces)
    <3> DEFINE decl == [kind |-> "schema", id |-> id, owner |-> owner, sealed |-> sealed,
                        root |-> FALSE, parent |-> Undeclared, members |-> members]
    <3>1. decl \in Decl /\ RootAllowed(decl)
      BY DEF Decl, RootAllowed, Kinds
    <3> QED BY <2>2, <3>1 DEF DeclareSchema, DeclareStep
  <2>3. ASSUME NEW parent \in Parents \cup {Undeclared}, NEW root \in Rootness(parent),
               DeclareClass(id, owner, sealed, root, parent, members, replaces)
        PROVE  DeclareStep
    <3> DEFINE decl == [kind |-> "class", id |-> id, owner |-> owner, sealed |-> sealed,
                        root |-> root /\ ~Demoted(id, root),
                        parent |-> parent, members |-> members]
    <3>1. decl \in Decl
      BY DEF Decl, Kinds, Rootness
    <3>2. RootAllowed(decl)
      BY DEF RootAllowed, Demoted
    <3> QED BY <2>3, <3>1, <3>2 DEF DeclareClass, DeclareStep
  <2>4. CASE DeclareTrait(id, owner, sealed, members, replaces)
    <3> DEFINE decl == [kind |-> "trait", id |-> id, owner |-> owner, sealed |-> sealed,
                        root |-> FALSE, parent |-> Undeclared, members |-> members]
    <3>1. decl \in Decl /\ RootAllowed(decl)
      BY DEF Decl, RootAllowed, Kinds
    <3> QED BY <2>4, <3>1 DEF DeclareTrait, DeclareStep
  <2> QED BY <2>1, <2>2, <2>3, <2>4
<1>2. ASSUME NEW owner \in Owners, NEW replaces \in Annotations,
             DeclareWithoutMembers(id, owner, replaces)
      PROVE  DeclareStep \/ GenericStep
  <2> DEFINE decl(kind, sealed) == [kind |-> kind, id |-> id, owner |-> owner, sealed |-> sealed,
                                    root |-> FALSE, parent |-> Undeclared, members |-> NoMembers]
  <2>1. \A kind \in Kinds, sealed \in BOOLEAN :
            decl(kind, sealed) \in Decl /\ RootAllowed(decl(kind, sealed))
    BY DEF Decl, RootAllowed, Members, NoMembers
  <2>2. ASSUME NEW sealed \in BOOLEAN, DeclareEnum(id, owner, sealed, replaces)
        PROVE  DeclareStep
    <3>1. Declare(decl("enum", sealed), replaces)
      BY <2>2 DEF DeclareEnum
    <3> QED BY <2>1, <3>1 DEF DeclareStep, Kinds
  <2>3. CASE DeclareGlobal(id, owner, replaces)
    <3>1. Declare(decl("global", FALSE), replaces)
      BY <2>3 DEF DeclareGlobal
    <3> QED BY <2>1, <3>1 DEF DeclareStep, Kinds
  <2>4. CASE DeclareObject(id, owner, replaces)
    <3>1. Declare(decl("object", FALSE), replaces)
      BY <2>4 DEF DeclareObject
    <3> QED BY <2>1, <3>1 DEF DeclareStep, Kinds
  <2>5. ASSUME NEW space \in GenericSpaces, OfferGeneric(space, id, owner, replaces)
        PROVE  GenericStep
    <3> DEFINE d == [space |-> space, id |-> id, owner |-> owner, sealed |-> FALSE]
    <3>1. d \in Declaration /\ d.space \in GenericSpaces
      BY DEF Declaration, Spaces
    <3> QED BY <2>5, <3>1 DEF OfferGeneric, GenericStep
  <2> QED BY <1>2, <2>2, <2>3, <2>4, <2>5 DEF DeclareWithoutMembers
<1>3. ASSUME NEW members \in Members, Extend(id, members)
      PROVE  ExtendStep \/ ReportStep
  <2>1. CASE ApplySchemaExtension(id, members)
    <3>1. last' \in [answer : Answers, named : Annotations]
      BY <2>1 DEF ApplySchemaExtension, Answers, Refusals, Annotations
    <3>2. "schema" \in Kinds
      BY DEF Kinds
    <3> QED BY <2>1, <3>1, <3>2 DEF ApplySchemaExtension, ExtendStep, ReportStep, registry
  <2>2. ASSUME NEW kind \in {"class", "trait"}, NEW reparent \in BOOLEAN,
               ApplyExtension(kind, id, reparent, members)
        PROVE  ExtendStep \/ ReportStep
    <3>1. last' \in [answer : Answers, named : Annotations]
      BY <2>2 DEF ApplyExtension, Answers, Refusals, Annotations
    <3>2. kind \in Kinds
      BY DEF Kinds
    <3> QED BY <2>2, <3>1, <3>2 DEF ApplyExtension, ExtendStep, ReportStep, registry
  <2> QED BY <1>3, <2>1, <2>2 DEF Extend
<1> QED BY <1>1, <1>2, <1>3

-----------------------------------------------------------------------------
(* The inductive invariant *)

\* StoredIsDeclared and the two index invariants need each other: a store
\* index is only set when the ledger's is, and overwriting keeps both because
\* an index finds the declaration of its own key.  OneRoot is inductive with
\* them, since the demotion of a second root reads the store.
IInv ==
    /\ TypeOK
    /\ LedgerIndexed
    /\ StoresIndexed
    /\ StoredIsDeclared
    /\ OneRoot

\* The empty registry.
LEMMA InitIInv == Init => IInv
<1> SUFFICES ASSUME Init PROVE IInv
  OBVIOUS
<1>1. LedgerTypeOK
  <2>1. declarations \in Seq(Declaration) /\ Len(declarations) = 0
    BY DEF Init
  <2>2. declaration_index \in [Spaces \X Ids -> Nat]
    BY DEF Init
  <2>3. \A s \in Spaces, i \in Ids : declaration_index[<<s, i>>] = 0
    BY DEF Init
  <2> QED BY <2>1, <2>2, <2>3 DEF LedgerTypeOK, At
<1>2. StoresTypeOK
  BY StoreOfKind DEF Init, StoresTypeOK
<1>3. last \in [answer : Answers, named : Annotations]
  BY DEF Init, Answers, Annotations
<1>4. LedgerIndexed /\ StoredIsDeclared
  BY DEF Init, LedgerIndexed, StoredIsDeclared, At
<1>5. StoresIndexed /\ OneRoot
  BY DEF Init, StoresIndexed, OneRoot, Stores
<1> QED BY <1>1, <1>2, <1>3, <1>4, <1>5 DEF IInv, TypeOK

\* What a declaration does to the registry: it is refused and nothing changes,
\* or it becomes both the ledger's entry and the stored declaration of its key
\* and every other key keeps what it had.
LEMMA DeclareEffect ==
    ASSUME TypeOK, LedgerIndexed, StoresIndexed, NEW decl \in Decl,
           NEW replaces \in Annotations, Declare(decl, replaces)
    PROVE  /\ LedgerTypeOK' /\ LedgerIndexed' /\ StoresTypeOK' /\ StoresIndexed'
           /\ \A s \in Spaces, i \in Ids : At(s, i) # 0 => declaration_index'[<<s, i>>] = At(s, i)
           /\ \A s \in Spaces, i \in Ids :
                (<<s, i>> # <<decl.kind, decl.id>> /\ At(s, i) # 0) =>
                    Existing(s, i)' = Existing(s, i)
           /\ \A k \in Kinds, i \in Ids :
                (k # decl.kind \/ i # decl.id) =>
                    /\ index'[k][i] = index[k][i]
                    /\ index[k][i] # 0 => Stored(k, i)' = Stored(k, i)
           /\ \/ /\ Verdict(Entry(decl), replaces) \in Refusals
                 /\ UNCHANGED registry
              \/ /\ Verdict(Entry(decl), replaces) \notin Refusals
                 /\ Put(decl)
                 /\ declaration_index'[<<decl.kind, decl.id>>] # 0
                 /\ Existing(decl.kind, decl.id)' = Entry(decl)
                 /\ index'[decl.kind][decl.id] # 0
                 /\ Stored(decl.kind, decl.id)' = decl
<1>1. /\ Entry(decl) \in Declaration
      /\ Entry(decl).space = decl.kind
      /\ Entry(decl).id = decl.id
  BY DEF Entry, Decl, Declaration, Spaces
<1>2. Offer(Entry(decl), replaces)
  BY DEF Declare
<1>3. /\ LedgerTypeOK' /\ LedgerIndexed'
      /\ \A s \in Spaces, i \in Ids : At(s, i) # 0 => declaration_index'[<<s, i>>] = At(s, i)
      /\ Verdict(Entry(decl), replaces) \notin Refusals =>
            /\ declaration_index'[<<decl.kind, decl.id>>] # 0
            /\ Existing(decl.kind, decl.id)' = Entry(decl)
      /\ \A s \in Spaces, i \in Ids :
            (<<s, i>> # <<decl.kind, decl.id>> /\ At(s, i) # 0) =>
                Existing(s, i)' = Existing(s, i)
  BY <1>1, <1>2, OfferKeepsLedger DEF TypeOK
<1>4. CASE Verdict(Entry(decl), replaces) \in Refusals
  <2>1. UNCHANGED <<declarations, declaration_index>>
    BY <1>1, <1>2, <1>4, OfferCases DEF TypeOK, Refusals
  <2>2. UNCHANGED <<stores, index>>
    BY <1>4 DEF Declare
  <2>3. StoresTypeOK' /\ StoresIndexed'
    BY <2>2 DEF TypeOK, StoresTypeOK, StoresIndexed, Stored
  <2>4. \A k \in Kinds, i \in Ids :
            index'[k][i] = index[k][i] /\ Stored(k, i)' = Stored(k, i)
    BY <2>2 DEF Stored
  <2> QED BY <1>3, <1>4, <2>1, <2>2, <2>3, <2>4 DEF registry
<1>5. CASE Verdict(Entry(decl), replaces) \notin Refusals
  <2>1. Put(decl)
    BY <1>5 DEF Declare
  <2>2. StoresTypeOK
    BY DEF TypeOK
  <2> QED BY <1>3, <1>5, <2>1, <2>2, PutKeepsStores
<1> QED BY <1>4, <1>5

\* What an extension does: the declaration it names gains members and keeps
\* everything else, and no other declaration changes.
LEMMA ExtendEffect ==
    ASSUME TypeOK, StoresIndexed, NEW k \in Kinds, NEW i \in Ids, NEW new \in Members,
           index[k][i] # 0, ExtendMembers(k, i, new), UNCHANGED index
    PROVE  /\ StoresTypeOK' /\ StoresIndexed'
           /\ Stored(k, i)' = [Stored(k, i) EXCEPT !.members = Merge(Stored(k, i).members, new)]
           /\ \A l \in Kinds, j \in Ids :
                ((l # k \/ j # i) /\ index[l][j] # 0) => Stored(l, j)' = Stored(l, j)
<1> DEFINE old == Stored(k, i)
           decl == [old EXCEPT !.members = Merge(old.members, new)]
<1>1. old \in Decl /\ old.kind = k /\ old.id = i
  BY IndexedSlot DEF TypeOK
<1>2. Merge(old.members, new) \in Members
  BY <1>1 DEF Merge, Members, Decl
<1>3. decl \in Decl /\ decl.kind = k /\ decl.id = i
  <2> HIDE DEF old
  <2> QED BY <1>1, <1>2 DEF Decl
<1>4. stores' = [stores EXCEPT ![StoreOf(k)][index[k][i]] = decl]
  BY DEF ExtendMembers, Stored
<1> HIDE DEF decl
<1>5. StoresTypeOK
  BY DEF TypeOK
<1> QED BY <1>3, <1>4, <1>5, Overwrite DEF decl

\* One step of the registry keeps the invariant.
LEMMA StepIInv == IInv /\ [Next]_vars => IInv'
<1> SUFFICES ASSUME IInv, [Next]_vars PROVE IInv'
  OBVIOUS
<1> USE DEF IInv, TypeOK
<1>1. CASE DeclareStep
  <2>1. PICK decl \in Decl, replaces \in Annotations :
             Declare(decl, replaces) /\ RootAllowed(decl)
    BY <1>1 DEF DeclareStep
  <2>2. last' \in [answer : Answers, named : Annotations]
    <3>1. Entry(decl) \in Declaration /\ Offer(Entry(decl), replaces)
      BY <2>1 DEF Declare, Entry, Decl, Declaration, Spaces
    <3> QED BY <3>1, OfferCases
  <2>3. CASE UNCHANGED registry
    BY <2>2, <2>3 DEF registry, LedgerTypeOK, StoresTypeOK, LedgerIndexed, StoresIndexed,
                      StoredIsDeclared, OneRoot, At, Existing, Stored
  <2>4. CASE ~UNCHANGED registry
    <3>1. /\ LedgerTypeOK' /\ LedgerIndexed' /\ StoresTypeOK' /\ StoresIndexed'
          /\ Put(decl)
          /\ declaration_index'[<<decl.kind, decl.id>>] # 0
          /\ Stored(decl.kind, decl.id)' = decl
          /\ \A s \in Spaces, i \in Ids :
                At(s, i) # 0 => declaration_index'[<<s, i>>] = At(s, i)
          /\ \A k \in Kinds, i \in Ids :
                (k # decl.kind \/ i # decl.id) =>
                    /\ index'[k][i] = index[k][i]
                    /\ index[k][i] # 0 => Stored(k, i)' = Stored(k, i)
      BY <2>1, <2>4, DeclareEffect
    <3>2. StoredIsDeclared'
      <4>1. SUFFICES ASSUME NEW k \in Kinds, NEW i \in Ids, index'[k][i] # 0
                     PROVE  declaration_index'[<<k, i>>] # 0
        BY DEF StoredIsDeclared, At
      <4>2. CASE k = decl.kind /\ i = decl.id
        BY <3>1, <4>2
      <4>3. CASE k # decl.kind \/ i # decl.id
        <5>1. k \in Spaces
          BY DEF Spaces
        <5>2. index[k][i] # 0
          BY <3>1, <4>1, <4>3
        <5>3. At(k, i) # 0
          BY <5>2 DEF StoredIsDeclared
        <5> QED BY <3>1, <5>1, <5>3
      <4> QED BY <4>2, <4>3
    <3>3. OneRoot'
      <4>1. ASSUME NEW p \in DOMAIN stores'["classes"], stores'["classes"][p].root
            PROVE  /\ stores'["classes"][p].kind = "class"
                   /\ \/ stores'["classes"][p] = decl
                      \/ /\ p \in DOMAIN stores["classes"]
                         /\ stores["classes"][p].root
                         /\ stores["classes"][p].id # decl.id
                            \/ stores["classes"][p].kind # decl.kind
        <5> DEFINE new == stores'["classes"][p]
        <5>1. "classes" \in Stores /\ stores'["classes"] \in Seq(Decl)
          BY <3>1 DEF Stores, StoresTypeOK
        <5>2. new \in Decl /\ p # 0
          BY <4>1, <5>1, ElementType
        <5>3. PICK k \in Kinds, i \in Ids : new.kind = k /\ new.id = i
          BY <5>2 DEF Decl
        <5>4. StoreOf(k) = "classes" /\ index'[k][i] = p
          BY <3>1, <4>1, <5>1, <5>3 DEF StoresIndexed
        <5>5. CASE k = decl.kind /\ i = decl.id
          <6>1. new = decl
            BY <3>1, <5>4, <5>5 DEF Stored
          <6> QED BY <2>1, <4>1, <6>1 DEF RootAllowed
        <5>6. CASE k # decl.kind \/ i # decl.id
          <6>1. index[k][i] = p
            BY <3>1, <5>4, <5>6
          <6>2. Stored(k, i)' = Stored(k, i)
            BY <3>1, <5>2, <5>6, <6>1
          <6>3. stores["classes"][p] = new
            BY <5>4, <6>1, <6>2 DEF Stored
          <6>4. p \in DOMAIN stores["classes"]
            BY <5>1, <5>2, <5>4, <6>1 DEF StoresTypeOK
          <6>5. new.kind = "class"
            BY <4>1, <6>3, <6>4 DEF OneRoot
          <6> QED BY <4>1, <5>3, <5>6, <6>3, <6>4, <6>5
        <5> QED BY <5>5, <5>6
      <4>2. ASSUME NEW p \in DOMAIN stores'["classes"], NEW q \in DOMAIN stores'["classes"],
                   stores'["classes"][p].root, stores'["classes"][q].root
            PROVE  p = q
        <5>1. CASE stores'["classes"][p] = decl /\ stores'["classes"][q] = decl
          BY <3>1, <5>1 DEF StoresIndexed, Stores
        <5>2. ASSUME NEW r \in DOMAIN stores["classes"], stores["classes"][r].root,
                     \/ stores["classes"][r].id # decl.id
                     \/ stores["classes"][r].kind # decl.kind
              PROVE  ~decl.root
          <6>1. r \in Nat /\ DOMAIN stores["classes"] = 1..Len(stores["classes"])
            BY <5>2 DEF StoresTypeOK, Stores
          <6>2. stores["classes"][r].kind = "class"
            BY <5>2 DEF OneRoot
          <6>3. IsRootClass(r)
            BY <5>2, <6>1 DEF IsRootClass, OneRoot
          <6> QED BY <2>1, <5>2, <6>2, <6>3 DEF RootAllowed
        <5>3. CASE stores'["classes"][p] # decl /\ stores'["classes"][q] # decl
          BY <4>1, <4>2, <5>3 DEF OneRoot
        <5> QED BY <4>1, <4>2, <5>1, <5>2, <5>3
      <4> QED BY <4>1, <4>2 DEF OneRoot
    <3> QED BY <2>2, <3>1, <3>2, <3>3
  <2> QED BY <2>3, <2>4
<1>2. CASE GenericStep
  <2>1. PICK d \in Declaration, replaces \in Annotations :
             Offer(d, replaces) /\ UNCHANGED <<stores, index>>
    BY <1>2 DEF GenericStep
  <2>2. /\ LedgerTypeOK' /\ LedgerIndexed'
        /\ \A s \in Spaces, i \in Ids : At(s, i) # 0 => declaration_index'[<<s, i>>] = At(s, i)
    BY <2>1, OfferKeepsLedger
  <2>3. last' \in [answer : Answers, named : Annotations]
    BY <2>1, OfferCases
  <2>4. StoresTypeOK' /\ StoresIndexed' /\ OneRoot'
    BY <2>1 DEF StoresTypeOK, StoresIndexed, OneRoot, Stored
  <2>5. StoredIsDeclared'
    <3>1. SUFFICES ASSUME NEW k \in Kinds, NEW i \in Ids, index[k][i] # 0
                   PROVE  declaration_index'[<<k, i>>] # 0
      BY <2>1 DEF StoredIsDeclared, At
    <3>2. At(k, i) # 0 /\ k \in Spaces
      BY <3>1 DEF StoredIsDeclared, Spaces
    <3> QED BY <2>2, <3>2
  <2> QED BY <2>2, <2>3, <2>4, <2>5
<1>3. CASE ExtendStep
  <2>1. PICK k \in Kinds, i \in Ids, new \in Members :
             /\ index[k][i] # 0
             /\ ExtendMembers(k, i, new)
             /\ last' \in [answer : Answers, named : Annotations]
             /\ UNCHANGED <<declarations, declaration_index, index>>
    BY <1>3 DEF ExtendStep
  <2>2. StoresTypeOK' /\ StoresIndexed'
    BY <2>1, ExtendEffect
  <2>3. LedgerTypeOK' /\ LedgerIndexed' /\ StoredIsDeclared'
    BY <2>1 DEF LedgerTypeOK, LedgerIndexed, StoredIsDeclared, At, Existing
  <2>4. OneRoot'
    <3>1. \A s \in Stores : DOMAIN stores'[s] = DOMAIN stores[s]
      BY <2>1 DEF ExtendMembers, StoresTypeOK
    <3>2. ASSUME NEW p \in DOMAIN stores["classes"]
          PROVE  /\ stores'["classes"][p].root = stores["classes"][p].root
                 /\ stores'["classes"][p].kind = stores["classes"][p].kind
      BY <2>1 DEF ExtendMembers, StoresTypeOK
    <3> QED BY <3>1, <3>2 DEF OneRoot, Stores
  <2> QED BY <2>1, <2>2, <2>3, <2>4
<1>4. CASE ReportStep
  BY <1>4 DEF ReportStep, registry, LedgerTypeOK, StoresTypeOK, LedgerIndexed, StoresIndexed,
              StoredIsDeclared, OneRoot, At, Existing, Stored
<1>5. CASE UNCHANGED vars
  BY <1>5 DEF vars, LedgerTypeOK, StoresTypeOK, LedgerIndexed, StoresIndexed,
              StoredIsDeclared, OneRoot, At, Existing, Stored
<1> QED BY <1>1, <1>2, <1>3, <1>4, <1>5, StepShape

-----------------------------------------------------------------------------
(* Theorems *)

\* The invariant holds of every reachable registry.
LEMMA AlwaysIInv == Spec => []IInv
<1>1. Init => IInv
  BY InitIInv
<1>2. IInv /\ [Next]_vars => IInv'
  BY StepIInv
<1> QED BY <1>1, <1>2, PTL DEF Spec

\* Every index of the registry is 0 or a position of the vector beside it.
THEOREM TypeCorrect == Spec => []TypeOK
BY AlwaysIInv, PTL DEF IInv

\* No lookup answers for another key or kind, nothing is stored without a ledger
\* entry, and at most one declaration is marked root, in whatever order
\* declarations are made, replaced and extended.
THEOREM StaysConsistent == Spec => []Consistent
BY AlwaysIInv, PTL DEF IInv, Consistent

\* When no form's `unique_in` names one of the registry's own namespaces, the
\* ledger and the store agree about every declaration: the same offer sets
\* both.  (With such a form they need not.)
LEMMA StepLedgerMatchesStores ==
    ASSUME GenericSpaces \cap Kinds = {}, IInv, LedgerMatchesStores, [Next]_vars
    PROVE  LedgerMatchesStores'
<1> USE DEF IInv, TypeOK
<1>1. CASE DeclareStep
  <2>1. PICK decl \in Decl, replaces \in Annotations : Declare(decl, replaces)
    BY <1>1 DEF DeclareStep
  <2>2. CASE UNCHANGED registry
    BY <2>2 DEF registry, LedgerMatchesStores, At, Existing, Stored
  <2>3. CASE ~UNCHANGED registry
    <3>1. /\ declaration_index'[<<decl.kind, decl.id>>] # 0
          /\ Existing(decl.kind, decl.id)' = Entry(decl)
          /\ Stored(decl.kind, decl.id)' = decl
          /\ \A s \in Spaces, i \in Ids :
                At(s, i) # 0 => declaration_index'[<<s, i>>] = At(s, i)
          /\ \A s \in Spaces, i \in Ids :
                (<<s, i>> # <<decl.kind, decl.id>> /\ At(s, i) # 0) =>
                    Existing(s, i)' = Existing(s, i)
          /\ \A k \in Kinds, i \in Ids :
                (k # decl.kind \/ i # decl.id) =>
                    /\ index'[k][i] = index[k][i]
                    /\ index[k][i] # 0 => Stored(k, i)' = Stored(k, i)
      BY <2>1, <2>3, DeclareEffect
    <3>2. SUFFICES ASSUME NEW k \in Kinds, NEW i \in Ids, index'[k][i] # 0
                   PROVE  /\ declaration_index'[<<k, i>>] # 0
                          /\ Existing(k, i)'.owner = Stored(k, i)'.owner
                          /\ Existing(k, i)'.sealed = Stored(k, i)'.sealed
      BY DEF LedgerMatchesStores, At
    <3>3. CASE k = decl.kind /\ i = decl.id
      <4>1. Existing(k, i)' = Entry(decl) /\ Stored(k, i)' = decl
        BY <3>1, <3>3
      <4> QED BY <3>1, <3>3, <4>1 DEF Entry
    <3>4. CASE k # decl.kind \/ i # decl.id
      <4>1. index[k][i] # 0 /\ Stored(k, i)' = Stored(k, i)
        BY <3>1, <3>2, <3>4
      <4>2. /\ At(k, i) # 0
            /\ Existing(k, i).owner = Stored(k, i).owner
            /\ Existing(k, i).sealed = Stored(k, i).sealed
        BY <4>1 DEF LedgerMatchesStores
      <4>3. k \in Spaces /\ <<k, i>> # <<decl.kind, decl.id>>
        BY <3>4 DEF Spaces
      <4>4. declaration_index'[<<k, i>>] # 0 /\ Existing(k, i)' = Existing(k, i)
        BY <3>1, <4>2, <4>3
      <4> QED BY <4>1, <4>2, <4>4
    <3> QED BY <3>3, <3>4
  <2> QED BY <2>2, <2>3
<1>2. CASE GenericStep
  <2>1. PICK d \in Declaration, replaces \in Annotations :
             Offer(d, replaces) /\ d.space \in GenericSpaces /\ UNCHANGED <<stores, index>>
    BY <1>2 DEF GenericStep
  <2>2. /\ \A s \in Spaces, i \in Ids :
             At(s, i) # 0 => declaration_index'[<<s, i>>] = At(s, i)
        /\ \A s \in Spaces, i \in Ids :
             (<<s, i>> # <<d.space, d.id>> /\ At(s, i) # 0) => Existing(s, i)' = Existing(s, i)
    BY <2>1, OfferKeepsLedger
  <2>3. SUFFICES ASSUME NEW k \in Kinds, NEW i \in Ids, index[k][i] # 0
                 PROVE  /\ declaration_index'[<<k, i>>] # 0
                        /\ Existing(k, i)'.owner = Stored(k, i).owner
                        /\ Existing(k, i)'.sealed = Stored(k, i).sealed
    BY <2>1 DEF LedgerMatchesStores, At, Stored
  <2>4. /\ At(k, i) # 0
        /\ Existing(k, i).owner = Stored(k, i).owner
        /\ Existing(k, i).sealed = Stored(k, i).sealed
    BY <2>3 DEF LedgerMatchesStores
  <2>5. k \in Spaces /\ <<k, i>> # <<d.space, d.id>>
    BY <2>1 DEF Spaces
  <2> QED BY <2>2, <2>4, <2>5
<1>3. CASE ExtendStep
  <2>1. PICK k \in Kinds, i \in Ids, new \in Members :
             /\ index[k][i] # 0
             /\ ExtendMembers(k, i, new)
             /\ UNCHANGED <<declarations, declaration_index, index>>
    BY <1>3 DEF ExtendStep
  <2>2. /\ Stored(k, i)' = [Stored(k, i) EXCEPT !.members = Merge(Stored(k, i).members, new)]
        /\ \A l \in Kinds, j \in Ids :
             ((l # k \/ j # i) /\ index[l][j] # 0) => Stored(l, j)' = Stored(l, j)
    BY <2>1, ExtendEffect
  <2>3. Stored(k, i) \in Decl
    BY <2>1, IndexedSlot
  <2>4. Stored(k, i)'.owner = Stored(k, i).owner /\ Stored(k, i)'.sealed = Stored(k, i).sealed
    BY <2>2, <2>3 DEF Decl
  <2>5. ASSUME NEW l \in Kinds, NEW j \in Ids, index[l][j] # 0
        PROVE  Stored(l, j)'.owner = Stored(l, j).owner /\ Stored(l, j)'.sealed = Stored(l, j).sealed
    BY <2>2, <2>4, <2>5
  <2> QED BY <2>1, <2>5 DEF LedgerMatchesStores, At, Existing
<1>4. CASE ReportStep
  BY <1>4 DEF ReportStep, registry, LedgerMatchesStores, At, Existing, Stored
<1>5. CASE UNCHANGED vars
  BY <1>5 DEF vars, LedgerMatchesStores, At, Existing, Stored
<1> QED BY <1>1, <1>2, <1>3, <1>4, <1>5, StepShape

\* The ledger and the stores agree about owner and seal of every declaration.
THEOREM LedgerAgrees ==
    ASSUME GenericSpaces \cap Kinds = {}
    PROVE  Spec => []LedgerMatchesStores
<1>1. Init => LedgerMatchesStores
  BY DEF Init, LedgerMatchesStores
<1>2. IInv /\ LedgerMatchesStores /\ [Next]_vars => LedgerMatchesStores'
  BY StepLedgerMatchesStores
<1> QED BY <1>1, <1>2, AlwaysIInv, PTL DEF Spec

\* Merging members never changes one that is declared.
LEMMA MergeKeeps ==
    ASSUME NEW old \in Members, NEW new \in Members, NEW n \in Names, old[n] # Undeclared
    PROVE  Merge(old, new)[n] = old[n]
BY DEF Merge, Members

\* One step leaves a sealed declaration's entry alone, and the members its
\* stored declaration has.
LEMMA StepSealed ==
    ASSUME IInv, [Next]_vars
    PROVE  SealedStep
<1> USE DEF IInv, TypeOK
<1> SUFFICES ASSUME NEW s \in Spaces, NEW i \in Ids, At(s, i) # 0, Existing(s, i).sealed
             PROVE  /\ declaration_index'[<<s, i>>] # 0
                    /\ Existing(s, i)' = Existing(s, i)
                    /\ (s \in Kinds /\ index[s][i] # 0) =>
                         /\ Stored(s, i)'.parent = Stored(s, i).parent
                         /\ \A n \in Names :
                               Stored(s, i).members[n] # Undeclared =>
                                   Stored(s, i)'.members[n] = Stored(s, i).members[n]
  BY DEF SealedStep
<1>1. ASSUME NEW d \in Declaration, NEW replaces \in Annotations, Offer(d, replaces)
      PROVE  /\ declaration_index'[<<s, i>>] # 0
             /\ Existing(s, i)' = Existing(s, i)
             /\ <<s, i>> = <<d.space, d.id>> => Verdict(d, replaces) \in Refusals
  <2>1. <<s, i>> = <<d.space, d.id>> => Verdict(d, replaces) \in Refusals
    BY DEF Verdict, Refusals, Existing
  <2>2. CASE <<s, i>> = <<d.space, d.id>>
    <3>1. declarations' = declarations /\ declaration_index' = declaration_index
      BY <1>1, <2>1, <2>2, OfferCases DEF Refusals
    <3> QED BY <2>1, <3>1 DEF At, Existing
  <2>3. CASE <<s, i>> # <<d.space, d.id>>
    <3>1. declaration_index'[<<s, i>>] = At(s, i) /\ Existing(s, i)' = Existing(s, i)
      BY <1>1, <2>3, OfferKeepsLedger
    <3> QED BY <2>1, <3>1
  <2> QED BY <2>2, <2>3
<1>2. CASE DeclareStep
  <2>1. PICK decl \in Decl, replaces \in Annotations : Declare(decl, replaces)
    BY <1>2 DEF DeclareStep
  <2>2. /\ Entry(decl) \in Declaration /\ Offer(Entry(decl), replaces)
        /\ Entry(decl).space = decl.kind /\ Entry(decl).id = decl.id
    BY <2>1 DEF Declare, Entry, Decl, Declaration, Spaces
  <2>3. ASSUME s \in Kinds, index[s][i] # 0
        PROVE  Stored(s, i)' = Stored(s, i)
    <3>1. CASE s = decl.kind /\ i = decl.id
      <4>1. Verdict(Entry(decl), replaces) \in Refusals
        BY <1>1, <2>2, <3>1
      <4>2. UNCHANGED <<stores, index>>
        BY <2>1, <4>1 DEF Declare
      <4> QED BY <4>2 DEF Stored
    <3>2. CASE s # decl.kind \/ i # decl.id
      BY <2>1, <2>3, <3>2, DeclareEffect, ZenonT(30)
    <3> QED BY <3>1, <3>2
  <2> QED BY <1>1, <2>2, <2>3
<1>3. CASE GenericStep
  <2>1. PICK d \in Declaration, replaces \in Annotations :
             Offer(d, replaces) /\ UNCHANGED <<stores, index>>
    BY <1>3 DEF GenericStep
  <2> QED BY <1>1, <2>1 DEF Stored
<1>4. CASE ExtendStep
  <2>1. PICK k \in Kinds, j \in Ids, new \in Members :
             /\ index[k][j] # 0
             /\ ExtendMembers(k, j, new)
             /\ UNCHANGED <<declarations, declaration_index, index>>
    BY <1>4 DEF ExtendStep
  <2>2. declaration_index'[<<s, i>>] # 0 /\ Existing(s, i)' = Existing(s, i)
    BY <2>1 DEF At, Existing
  <2>3. ASSUME s \in Kinds, index[s][i] # 0
        PROVE  /\ Stored(s, i)'.parent = Stored(s, i).parent
               /\ \A n \in Names : Stored(s, i).members[n] # Undeclared =>
                                       Stored(s, i)'.members[n] = Stored(s, i).members[n]
    <3>1. CASE s = k /\ i = j
      <4>1. Stored(k, j) \in Decl
        BY <2>1, IndexedSlot
      <4>2. Stored(k, j)' = [Stored(k, j) EXCEPT !.members = Merge(Stored(k, j).members, new)]
        BY <2>1, ExtendEffect
      <4>3. /\ Stored(k, j)'.members = Merge(Stored(k, j).members, new)
            /\ Stored(k, j)'.parent = Stored(k, j).parent
        BY <4>1, <4>2 DEF Decl
      <4> QED BY <2>3, <3>1, <4>1, <4>3, MergeKeeps DEF Decl
    <3>2. CASE s # k \/ i # j
      BY <2>1, <2>3, <3>2, ExtendEffect
    <3> QED BY <3>1, <3>2
  <2> QED BY <2>2, <2>3
<1>5. CASE ReportStep
  BY <1>5 DEF ReportStep, registry, At, Existing, Stored
<1>6. CASE UNCHANGED vars
  BY <1>6 DEF vars, At, Existing, Stored
<1> QED BY <1>2, <1>3, <1>4, <1>5, <1>6, StepShape

\* Sealed means extend freely, never supersede, for ever.
THEOREM SealHolds == Spec => SealedForever
<1>1. IInv /\ [Next]_vars => [SealedStep]_vars
  BY StepSealed
<1> QED BY <1>1, AlwaysIInv, PTL DEF Spec, SealedForever

\* One step changes a stored declaration's owner or retypes a member only
\* when its owner is named by the @replaces of what supersedes it.
LEMMA StepRetype ==
    ASSUME IInv, LedgerMatchesStores, [Next]_vars
    PROVE  RetypeStep \/ UNCHANGED vars
<1> USE DEF IInv, TypeOK
<1> SUFFICES ASSUME NEW k \in Kinds, NEW i \in Ids, index[k][i] # 0, ~UNCHANGED vars
             PROVE  \/ /\ Stored(k, i)'.owner = Stored(k, i).owner
                       /\ Stored(k, i)'.parent = Stored(k, i).parent
                       /\ \A n \in Names : Stored(k, i).members[n] \in
                                             {Undeclared, Stored(k, i)'.members[n]}
                    \/ /\ last'.answer = "Replaced"
                       /\ last'.named = Stored(k, i).owner
  BY DEF RetypeStep
<1>1. CASE DeclareStep
  <2>1. PICK decl \in Decl, replaces \in Annotations : Declare(decl, replaces)
    BY <1>1 DEF DeclareStep
  <2>2. /\ Entry(decl) \in Declaration /\ Offer(Entry(decl), replaces)
        /\ Entry(decl).space = decl.kind /\ Entry(decl).id = decl.id
    BY <2>1 DEF Declare, Entry, Decl, Declaration, Spaces
  <2>3. CASE Verdict(Entry(decl), replaces) \in Refusals
    BY <2>1, <2>3 DEF Declare, Stored
  <2>4. CASE k # decl.kind \/ i # decl.id
    <3>1. Stored(k, i)' = Stored(k, i)
      BY <2>1, <2>4, DeclareEffect
    <3> QED BY <3>1
  <2>5. CASE k = decl.kind /\ i = decl.id /\ Verdict(Entry(decl), replaces) \notin Refusals
    <3>1. At(k, i) # 0 /\ Existing(k, i).owner = Stored(k, i).owner
      BY DEF LedgerMatchesStores
    <3>2. last'.answer = Verdict(Entry(decl), replaces) /\ last'.named = replaces
      BY <2>2, OfferCases
    <3>3. Verdict(Entry(decl), replaces) = "Replaced" /\ Existing(k, i).owner = replaces
      BY <2>2, <2>5, <3>1, OfferCases
    <3> QED BY <3>1, <3>2, <3>3
  <2> QED BY <2>3, <2>4, <2>5
<1>2. CASE GenericStep
  BY <1>2 DEF GenericStep, Stored
<1>3. CASE ExtendStep
  <2>1. PICK l \in Kinds, j \in Ids, new \in Members :
             /\ index[l][j] # 0
             /\ ExtendMembers(l, j, new)
             /\ UNCHANGED <<declarations, declaration_index, index>>
    BY <1>3 DEF ExtendStep
  <2>2. CASE k = l /\ i = j
    <3>1. Stored(l, j) \in Decl
      BY <2>1, IndexedSlot
    <3>2. Stored(l, j)' = [Stored(l, j) EXCEPT !.members = Merge(Stored(l, j).members, new)]
      BY <2>1, ExtendEffect
    <3>3. /\ Stored(l, j)'.members = Merge(Stored(l, j).members, new)
          /\ Stored(l, j)'.owner = Stored(l, j).owner
          /\ Stored(l, j)'.parent = Stored(l, j).parent
      BY <3>1, <3>2 DEF Decl
    <3> QED BY <2>2, <3>1, <3>3, MergeKeeps DEF Decl
  <2>3. CASE k # l \/ i # j
    <3>1. Stored(k, i)' = Stored(k, i)
      BY <2>1, <2>3, ExtendEffect
    <3> QED BY <3>1
  <2> QED BY <2>2, <2>3
<1>4. CASE ReportStep
  BY <1>4 DEF ReportStep, registry, Stored
<1> QED BY <1>1, <1>2, <1>3, <1>4, StepShape

\* Nobody but the holder of a matching @replaces takes a declaration over or
\* retypes what it declares.
THEOREM RetypingIsReplacement ==
    ASSUME GenericSpaces \cap Kinds = {}
    PROVE  Spec => RetypedOnlyByReplacement
<1>1. IInv /\ LedgerMatchesStores /\ [Next]_vars => [RetypeStep]_vars
  BY StepRetype
<1> QED BY <1>1, AlwaysIInv, LedgerAgrees, PTL DEF Spec, RetypedOnlyByReplacement

\* What a declaration says is taken back by a matching @replaces alone, and by
\* nothing once it is sealed.
THEOREM SupersedingByName ==
    ASSUME GenericSpaces \cap Kinds = {}
    PROVE  Spec => Superseding
BY SealHolds, RetypingIsReplacement DEF Superseding

\* An offer is a claim of a free key, a supersession of one that is not
\* sealed, or changes no holder.
LEMMA OfferImplements ==
    ASSUME LedgerTypeOK, LedgerIndexed, NEW d \in Declaration,
           NEW replaces \in Annotations, Offer(d, replaces)
    PROVE  Ledger!Next \/ UNCHANGED Holder
<1> DEFINE key == <<d.space, d.id>>
           keys == Spaces \X Ids
<1>1. key \in keys /\ d.space \in Spaces /\ d.id \in Ids
  BY DEF Declaration
<1>2. CASE Verdict(d, replaces) \in Refusals
  BY <1>2, OfferCases DEF Refusals, Holder
<1>3. CASE Verdict(d, replaces) \notin Refusals
  <2>1. /\ declaration_index'[key] # 0
        /\ declarations'[declaration_index'[key]] = d
    BY <1>3, OfferKeepsLedger DEF Existing, At
  <2>2. Holder'[key] = [owner |-> d.owner, sealed |-> d.sealed]
    BY <1>1, <2>1 DEF Holder
  <2>3. Holder'[key] \in Ledger!Holding
    BY <2>2 DEF Ledger!Holding, Declaration
  <2>4. ASSUME NEW s \in Spaces, NEW i \in Ids, <<s, i>> # key
        PROVE  Holder'[<<s, i>>] = Holder[<<s, i>>]
    <3>1. CASE At(s, i) = 0
      <4>1. declaration_index'[<<s, i>>] = 0
        BY <1>3, <2>4, <3>1, OfferCases DEF At, LedgerTypeOK
      <4> QED BY <3>1, <4>1 DEF Holder, At
    <3>2. CASE At(s, i) # 0
      <4>1. declaration_index'[<<s, i>>] = At(s, i) /\ Existing(s, i)' = Existing(s, i)
        BY <2>4, <3>2, OfferKeepsLedger
      <4> QED BY <3>2, <4>1 DEF Holder, At, Existing
    <3> QED BY <3>1, <3>2
  <2>5. Ledger!Take(key)
    <3>1. \A k \in keys : k # key => Holder'[k] = Holder[k]
      BY <2>4
    <3>2. Holder' = [k \in keys |-> Holder'[k]] /\ Holder = [k \in keys |-> Holder[k]]
      BY DEF Holder
    <3>3. Holder' = [Holder EXCEPT ![key] = Holder'[key]]
      BY <1>1, <3>1, <3>2
    <3> QED BY <2>3, <3>3 DEF Ledger!Take
  <2>6. Ledger!Claim(key) \/ Ledger!Supersede(key)
    <3>1. CASE At(d.space, d.id) = 0
      <4>1. Holder[key] = Undeclared
        BY <1>1, <3>1 DEF Holder, At
      <4> QED BY <2>5, <4>1 DEF Ledger!Claim
    <3>2. CASE At(d.space, d.id) # 0
      <4>1. ~Existing(d.space, d.id).sealed
        BY <1>3, <3>2, OfferCases
      <4>2. ~Holder[key].sealed
        BY <1>1, <3>2, <4>1 DEF Holder, At, Existing
      <4> QED BY <2>5, <4>2 DEF Ledger!Claim, Ledger!Supersede
    <3> QED BY <3>1, <3>2
  <2> QED BY <1>1, <2>6 DEF Ledger!Next
<1> QED BY <1>2, <1>3

\* The registry implements the abstract ledger of owners: `offer` is the only
\* way a key changes hands, and no sealed key ever does.
THEOREM GateImplementsOwnership == Spec => ImplementsOwnership
<1>1. Init => Ledger!Init
  BY DEF Init, Ledger!Init, Holder
<1>2. IInv /\ [Next]_vars => [Ledger!Next]_Holder
  <2> SUFFICES ASSUME IInv, [Next]_vars PROVE Ledger!Next \/ UNCHANGED Holder
    OBVIOUS
  <2> USE DEF IInv, TypeOK
  <2>1. CASE DeclareStep
    <3>1. PICK decl \in Decl, replaces \in Annotations : Declare(decl, replaces)
      BY <2>1 DEF DeclareStep
    <3>2. Entry(decl) \in Declaration /\ Offer(Entry(decl), replaces)
      BY <3>1 DEF Declare, Entry, Decl, Declaration, Spaces
    <3> QED BY <3>2, OfferImplements
  <2>2. CASE GenericStep
    BY <2>2, OfferImplements DEF GenericStep
  <2>3. CASE UNCHANGED <<declarations, declaration_index>>
    BY <2>3 DEF Holder
  <2> QED BY <2>1, <2>2, <2>3, StepShape DEF ExtendStep, ReportStep, registry, vars
<1> QED BY <1>1, <1>2, AlwaysIInv, PTL DEF Spec, ImplementsOwnership, Ledger!Spec

-----------------------------------------------------------------------------
(* The load *)

\* The position of the load, between two steps of it.
PositionOK ==
    /\ program \in Programs
    /\ group \in Nat \ {0}
    /\ phase \in Nat
    /\ at \in Nat \ {0}

LInv == PositionOK /\ IInv

-----------------------------------------------------------------------------
(* A load is a run of the registry *)

\* The statement a pass visits, and the owner it is declared for.
LEMMA VisitedStatement ==
    ASSUME PositionOK, group <= Len(program), at <= Len(Statements)
    PROVE  Owner \in Owners /\ Statements[at] \in Statement
<1>1. program \in Seq(Group) /\ group \in 1..Len(program)
  BY ProgramsAssumption DEF PositionOK
<1>2. program[group] \in Group
  BY <1>1, ElementType
<1>3. Owner \in Owners /\ Statements \in Seq(Statement)
  BY <1>2 DEF Owner, Statements, Group
<1>4. at \in 1..Len(Statements)
  BY <1>3 DEF PositionOK
<1> QED BY <1>3, <1>4, ElementType

\* The namespace a form's unique key names is one of the ordinary forms'.
LEMMA SpaceOfForm ==
    ASSUME TypeOK, StoresIndexed, NEW s \in Statement, IsForm(s.key), WritesId(s)
    PROVE  SpaceOf(s.key) \in GenericSpaces
<1> DEFINE form == Stored("schema", s.key)
           n == CHOOSE n \in UniqueKeys(s.key) : TRUE
<1>1. form \in Decl
  BY IndexedSlot DEF TypeOK, IsForm, Kinds
<1>2. n \in UniqueKeys(s.key)
  BY DEF WritesId
<1>3. n \in Names /\ form.members[n] # Undeclared /\ UniqueIn[form.members[n]] # NoSpace
  BY <1>2 DEF UniqueKeys
<1>4. form.members[n] \in Types
  BY <1>1, <1>3 DEF Decl, Members
<1> QED BY <1>3, <1>4, UniqueAssumption DEF SpaceOf

\* A pass visiting a statement takes one step of the registry, or none.
LEMMA VisitIsRegistryStep ==
    ASSUME LInv, Visit
    PROVE  [Next]_vars
<1> DEFINE s == Statements[at]
<1>1. Owner \in Owners /\ s \in Statement
  BY VisitedStatement DEF LInv, Visit
<1>2. /\ s.id \in Ids /\ s.members \in Members /\ s.sealed \in BOOLEAN
      /\ s.root \in BOOLEAN /\ s.reparent \in BOOLEAN /\ s.replaces \in Annotations
      /\ s.parent \in Parents \cup {Undeclared}
      /\ (s.root /\ s.parent = Undeclared) \in Rootness(s.parent)
  BY <1>1 DEF Statement, Rootness
<1>3. \/ ReadSchemas(s) \/ FoldDeclarations(s) \/ NoteObjects(s) \/ CheckTopLevel(s)
  BY DEF Visit
<1> HIDE DEF s
<1>4. CASE UNCHANGED vars
  BY <1>4
<1>5. CASE DeclareSchema(s.id, Owner, s.sealed, s.members, s.replaces)
  BY <1>1, <1>2, <1>5 DEF Next, DeclareWithMembers
<1>6. CASE DeclareObject(s.id, Owner, s.replaces)
  BY <1>1, <1>2, <1>6 DEF Next, DeclareWithoutMembers
<1>7. CASE FoldDeclaration(s)
  <2>1. CASE DeclareClass(s.id, Owner, s.sealed, s.root /\ s.parent = Undeclared, s.parent,
                          s.members, s.replaces)
    BY <1>1, <1>2, <2>1 DEF Next, DeclareWithMembers
  <2>2. CASE DeclareTrait(s.id, Owner, s.sealed, s.members, s.replaces)
    BY <1>1, <1>2, <2>2 DEF Next, DeclareWithMembers
  <2>3. CASE \/ DeclareEnum(s.id, Owner, s.sealed, s.replaces)
             \/ DeclareGlobal(s.id, Owner, s.replaces)
    BY <1>1, <1>2, <2>3 DEF Next, DeclareWithoutMembers
  <2>4. CASE \/ ApplySchemaExtension(s.id, s.members)
             \/ /\ s.of \in {"class", "trait"}
                /\ ApplyExtension(s.of, s.id, s.reparent, s.members)
    BY <1>2, <2>4 DEF Next, Extend
  <2> QED BY <1>4, <1>7, <2>1, <2>2, <2>3, <2>4 DEF FoldDeclaration
<1>8. ASSUME IsForm(s.key), WritesId(s), OfferGeneric(SpaceOf(s.key), s.id, Owner, s.replaces)
      PROVE  [Next]_vars
  <2>1. SpaceOf(s.key) \in GenericSpaces
    BY <1>1, <1>8, SpaceOfForm DEF LInv, IInv
  <2> QED BY <1>1, <1>2, <1>8, <2>1 DEF Next, DeclareWithoutMembers
<1> QED BY <1>3, <1>4, <1>5, <1>6, <1>7, <1>8
        DEF ReadSchemas, FoldDeclarations, NoteObjects, CheckTopLevel

\* So does every other step of a load.
LEMMA LoadStepIsRegistryStep ==
    ASSUME LInv, [LoadNext]_all
    PROVE  [Next]_vars
<1>1. CASE Visit
  BY <1>1, VisitIsRegistryStep
<1>2. CASE NextPass \/ NextGroup \/ CheckRequirements \/ CheckLibraryManifests \/ UNCHANGED all
  BY <1>2 DEF NextPass, NextGroup, CheckRequirements, CheckLibraryManifests, all, vars
<1> QED BY <1>1, <1>2 DEF LoadNext

\* One step of a load keeps the invariant.
LEMMA StepLInv == LInv /\ [LoadNext]_all => LInv'
<1> SUFFICES ASSUME LInv, [LoadNext]_all PROVE LInv'
  OBVIOUS
<1>1. IInv'
  BY LoadStepIsRegistryStep, StepIInv DEF LInv
<1>2. PositionOK'
  BY DEF LInv, PositionOK, LoadNext, Visit, NextPass, NextGroup, CheckRequirements, CheckLibraryManifests, all
<1> QED BY <1>1, <1>2 DEF LInv

\* The invariant of every load.
LEMMA AlwaysLInv == LoadSpec => []LInv
<1>1. LoadInit => LInv
  BY InitIInv DEF LoadInit, LInv, PositionOK
<1> QED BY <1>1, StepLInv, PTL DEF LoadSpec

\* Every load is a run of the registry: fold_all changes it only through its
\* declare, offer and extend operations, and only with what they accept.
THEOREM LoadsAreRegistryRuns == LoadSpec => Spec
<1>1. LoadInit => Init
  BY DEF LoadInit
<1>2. LInv /\ [LoadNext]_all => [Next]_vars
  BY LoadStepIsRegistryStep
<1> QED BY <1>1, <1>2, AlwaysLInv, PTL DEF LoadSpec, Spec

-----------------------------------------------------------------------------
(* Core's requirements *)

\* A key that has a stored declaration goes on having one.
LEMMA IndexKept ==
    ASSUME IInv, [Next]_vars, NEW k \in Kinds, NEW i \in Ids, index[k][i] # 0
    PROVE  index'[k][i] # 0
<1> USE DEF IInv
<1>1. CASE DeclareStep
  <2>1. PICK decl \in Decl, replaces \in Annotations : Declare(decl, replaces)
    BY <1>1 DEF DeclareStep
  <2>2. \/ UNCHANGED registry
        \/ index'[decl.kind][decl.id] # 0
    BY <2>1, DeclareEffect
  <2>3. (k # decl.kind \/ i # decl.id) => index'[k][i] = index[k][i]
    BY <2>1, DeclareEffect
  <2> QED BY <2>2, <2>3 DEF registry
<1>2. CASE UNCHANGED index
  BY <1>2
<1> QED BY <1>1, <1>2, StepShape DEF GenericStep, ExtendStep, ReportStep, registry, vars

\* What a sealed stored declaration keeps through a step of the registry.
LEMMA SealedKept ==
    ASSUME GenericSpaces \cap Kinds = {}, IInv, LedgerMatchesStores, [Next]_vars,
           NEW k \in Kinds, NEW i \in Ids, index[k][i] # 0, Stored(k, i).sealed
    PROVE  /\ index'[k][i] # 0
           /\ Stored(k, i)'.sealed
           /\ Stored(k, i)'.parent = Stored(k, i).parent
           /\ \A n \in Names : Stored(k, i).members[n] # Undeclared =>
                                   Stored(k, i)'.members[n] = Stored(k, i).members[n]
<1>1. At(k, i) # 0 /\ Existing(k, i).sealed /\ k \in Spaces
  BY DEF LedgerMatchesStores, Spaces
<1>2. /\ Existing(k, i)' = Existing(k, i)
      /\ Stored(k, i)'.parent = Stored(k, i).parent
      /\ \A n \in Names : Stored(k, i).members[n] # Undeclared =>
                              Stored(k, i)'.members[n] = Stored(k, i).members[n]
  BY <1>1, StepSealed DEF SealedStep
<1>3. index'[k][i] # 0
  BY IndexKept
<1>4. LedgerMatchesStores'
  BY StepLedgerMatchesStores
<1>5. Existing(k, i)'.sealed = Stored(k, i)'.sealed
  BY <1>3, <1>4 DEF LedgerMatchesStores
<1> QED BY <1>1, <1>2, <1>3, <1>5

\* The requirements a step checks are those it finds: a requirement that is
\* met, of a sealed form, class or trait, or of what a sealed class says,
\* is met after any step of the registry.
LEMMA StepMet ==
    ASSUME GenericSpaces \cap Kinds = {}, IInv, LedgerMatchesStores, [Next]_vars,
           NEW r \in Requirement, r.kind \in Requirable,
           ~Unmet(r), SubjectSealed(r), OfMember(r) => IsClass(r.subject)
    PROVE  ~Unmet(r)'
<1>0. r.subject \in Ids /\ r.members \in Members /\ r.kind \in Requirable
  BY DEF Requirement
<1>1. CASE OfMember(r)
  <2>1. index["class"][r.subject] # 0 /\ Stored("class", r.subject).sealed
    BY <1>1 DEF SubjectSealed, NamespaceOf, IsClass
  <2>2. /\ index'["class"][r.subject] # 0
        /\ Stored("class", r.subject)'.parent = Stored("class", r.subject).parent
        /\ \A n \in Names : Stored("class", r.subject).members[n] # Undeclared =>
              Stored("class", r.subject)'.members[n] = Stored("class", r.subject).members[n]
    BY <1>0, <2>1, SealedKept DEF Kinds
  <2>3. NamespaceOf(r.subject)' = "class"
    BY <2>2 DEF NamespaceOf
  <2>4. CASE r.kind = "property"
    <3>1. \A n \in Names : r.members[n] # Undeclared =>
                              Stored("class", r.subject).members[n] = r.members[n]
      BY <2>1, <2>4 DEF Unmet, PropertyUnmet, NamespaceOf
    <3>2. \A n \in Names : r.members[n] # Undeclared =>
                              Stored("class", r.subject)'.members[n] = r.members[n]
      BY <2>2, <3>1
    <3>3. ~PropertyUnmet(r)'
      BY <2>2, <2>3, <3>2 DEF PropertyUnmet, Stored
    <3> QED BY <2>4, <3>3 DEF Unmet
  <2>5. CASE r.kind = "parent"
    <3>1. Stored("class", r.subject).parent = r.parent
      BY <2>1, <2>5 DEF Unmet, ParentUnmet, NamespaceOf
    <3>2. ~ParentUnmet(r)'
      BY <2>2, <2>3, <3>1 DEF ParentUnmet, Stored
    <3> QED BY <2>5, <3>2 DEF Unmet
  <2> QED BY <1>1, <2>4, <2>5 DEF OfMember
<1>2. CASE ~OfMember(r)
  <2>1. r.kind \in Kinds /\ index[r.kind][r.subject] # 0 /\ Stored(r.kind, r.subject).sealed
    BY <1>0, <1>2 DEF SubjectSealed, Requirable, Kinds, OfMember
  <2>2. index'[r.kind][r.subject] # 0 /\ Stored(r.kind, r.subject)'.sealed
    BY <1>0, <2>1, SealedKept
  <2>3. ~KindUnmet(r)'
    BY <2>2 DEF KindUnmet
  <2> QED BY <1>2, <2>3 DEF Unmet, OfMember
<1> QED BY <1>1, <1>2

RequirementsOK == requirements \in Seq(Requirement)

\* Only the statements of programs become requirements.
LEMMA AlwaysRequirementsOK == LoadSpec => []RequirementsOK
<1>1. LoadInit => RequirementsOK
  BY DEF LoadInit, RequirementsOK
<1>2. LInv /\ RequirementsOK /\ [LoadNext]_all => RequirementsOK'
  <2> SUFFICES ASSUME LInv, RequirementsOK, [LoadNext]_all PROVE RequirementsOK'
    OBVIOUS
  <2>1. CASE Visit
    <3> DEFINE s == Statements[at]
    <3>1. s \in Statement
      BY <2>1, VisitedStatement DEF LInv, Visit
    <3>2. [kind |-> s.of, subject |-> s.id, members |-> s.members, parent |-> s.parent] \in Requirement
      BY <3>1 DEF Statement, Requirement
    <3>3. \/ UNCHANGED requirements
          \/ requirements' = Append(requirements,
                                [kind |-> s.of, subject |-> s.id,
                                 members |-> s.members, parent |-> s.parent])
      BY <2>1 DEF Visit, ReadSchemas, FoldDeclarations, FoldDeclaration, NoteObjects,
                  CheckTopLevel, CollectManifest, lists
    <3> HIDE DEF s
    <3> QED BY <3>2, <3>3, AppendSeq DEF RequirementsOK
  <2>2. CASE ~Visit
    BY <2>2 DEF LoadNext, NextPass, NextGroup, CheckRequirements, CheckLibraryManifests, lists, all, RequirementsOK
  <2> QED BY <2>1, <2>2
<1> QED BY <1>1, <1>2, AlwaysLInv, PTL DEF LoadSpec

\* A requirement that is met stays met.
THEOREM RequirementsStayMet ==
    ASSUME GenericSpaces \cap Kinds = {}
    PROVE  LoadSpec => MetStaysMet
<1>1. LInv /\ RequirementsOK /\ LedgerMatchesStores /\ [LoadNext]_all => [RequirementStep]_all
  <2> SUFFICES ASSUME LInv, RequirementsOK, LedgerMatchesStores, [LoadNext]_all
               PROVE  RequirementStep
    OBVIOUS
  <2>1. IInv /\ [Next]_vars
    BY LoadStepIsRegistryStep DEF LInv
  <2>2. \A r \in Requirements : r \in Requirement /\ r.kind \in Requirable
    BY ElementType DEF Requirements, RequirementsOK
  <2> QED BY <2>1, <2>2, StepMet DEF RequirementStep
<1>2. LoadSpec => []RequirementsOK
  BY AlwaysRequirementsOK
<1>3. LoadSpec => []LedgerMatchesStores
  BY LoadsAreRegistryRuns, LedgerAgrees
<1> QED BY <1>1, <1>2, <1>3, AlwaysLInv, PTL DEF LoadSpec, MetStaysMet
-----------------------------------------------------------------------------
(* Type correctness of a load *)

ListsOK ==
    /\ group \in 1..(Len(program) + 1)
    /\ phase \in 0..Len(Passes)
    /\ local_properties \subseteq [name : Names, class : Ids]
    /\ \A r \in reports : r.code \in Codes

\* Every field of a load keeps its type: the load never leaves its groups and
\* passes, and reports only what it can report.
THEOREM LoadTypeCorrect == LoadSpec => []LoadTypeOK
<1> USE DEF Codes, Answers, Refusals
<1>1. LoadInit => ListsOK
  BY ProgramsAssumption DEF LoadInit, ListsOK, Passes
<1>2. LInv /\ ListsOK /\ [LoadNext]_all => ListsOK'
  <2> SUFFICES ASSUME LInv, ListsOK, [LoadNext]_all PROVE ListsOK'
    OBVIOUS
  <2>1. program \in Seq(Group)
    BY ProgramsAssumption DEF LInv, PositionOK
  <2>2. CASE Visit
    <3> DEFINE s == Statements[at]
    <3>1. last' \in [answer : Answers, named : Annotations]
      BY StepLInv DEF LInv, IInv, TypeOK
    <3>2. ReadSchemas(s) \/ FoldDeclarations(s) \/ NoteObjects(s) \/ CheckTopLevel(s)
      BY <2>2 DEF Visit
    <3>3. UNCHANGED <<program, group, phase>>
      BY <2>2 DEF Visit
    <3> HIDE DEF s
    <3>4. \A r \in reports' : r.code \in Codes
      <4>1. ASSUME NEW code \in Codes, Report(s, code)
            PROVE  \A r \in reports' : r.code \in Codes
        BY <4>1 DEF Report, ListsOK
      <4>2. ASSUME ReportAnswer(s) PROVE \A r \in reports' : r.code \in Codes
        <5>1. last'.answer \in Codes
          BY <3>1
        <5> QED BY <4>1, <4>2, <5>1 DEF ReportAnswer, ListsOK
      <4>3. ASSUME UNCHANGED reports PROVE \A r \in reports' : r.code \in Codes
        BY <4>3 DEF ListsOK
      <4>4. {"CoreReserved", "UnknownKey", "KeyMissing", "RefUnresolved"} \subseteq Codes
        OBVIOUS
      <4>5. \/ ReportAnswer(s) \/ UNCHANGED reports
            \/ Report(s, "CoreReserved") \/ Report(s, "UnknownKey")
            \/ Report(s, "KeyMissing") \/ Report(s, "RefUnresolved")
        BY <3>2 DEF ReadSchemas, FoldDeclarations, FoldDeclaration, NoteObjects, CheckTopLevel
      <4> QED BY <4>1, <4>2, <4>3, <4>4, <4>5
    <3>5. local_properties' \subseteq [name : Names, class : Ids]
      <4>1. CASE NoteObjects(s)
        <5>1. ObjectClass(s) # Undeclared => ObjectClass(s) \in Ids
          BY DEF ObjectClass, IsClass
        <5> QED BY <4>1, <5>1 DEF NoteObjects, ListsOK, lists
      <4>2. CASE ~NoteObjects(s)
        BY <3>2, <4>2 DEF ReadSchemas, FoldDeclarations, FoldDeclaration, CollectManifest,
                          CheckTopLevel, ListsOK, lists
      <4> QED BY <4>1, <4>2
    <3> QED BY <3>3, <3>4, <3>5 DEF ListsOK
  <2>3. CASE NextPass
    BY <2>3 DEF NextPass, ListsOK, Passes, lists
  <2>4. CASE NextGroup
    BY <2>1, <2>4 DEF NextGroup, ListsOK, Passes, lists
  <2>5. CASE CheckRequirements
    <3>1. \A r \in reports' : r.code \in Codes
      BY <2>5 DEF CheckRequirements, Failure, ListsOK
    <3> QED BY <2>5, <3>1 DEF CheckRequirements, ListsOK, Passes, lists
  <2>6. CASE CheckLibraryManifests
    <3>1. \A r \in reports' : r.code \in Codes
      BY <2>6 DEF CheckLibraryManifests, ListsOK
    <3> QED BY <2>6, <3>1 DEF CheckLibraryManifests, ListsOK, Passes, lists
  <2>7. CASE UNCHANGED all
    BY <2>7 DEF all, ListsOK
  <2> QED BY <2>2, <2>3, <2>4, <2>5, <2>6, <2>7 DEF LoadNext
<1>3. LInv /\ RequirementsOK /\ ListsOK => LoadTypeOK
  BY DEF LInv, IInv, RequirementsOK, ListsOK, LoadTypeOK
<1> QED BY <1>1, <1>2, <1>3, AlwaysLInv, AlwaysRequirementsOK, PTL DEF LoadSpec
-----------------------------------------------------------------------------
(* Forward references *)

\* When no `unique_in` names one of the registry's own namespaces, every entry
\* of the ledger in one of them has its declaration stored.
DeclaredIsStored == \A k \in Kinds, i \in Ids : At(k, i) # 0 => index[k][i] # 0

LEMMA StepDeclaredIsStored ==
    ASSUME GenericSpaces \cap Kinds = {}, IInv, DeclaredIsStored, [Next]_vars
    PROVE  DeclaredIsStored'
<1> USE DEF IInv
<1> SUFFICES ASSUME NEW k \in Kinds, NEW i \in Ids, declaration_index'[<<k, i>>] # 0
             PROVE  index'[k][i] # 0
  BY DEF DeclaredIsStored, At
<1>1. At(k, i) # 0 => index'[k][i] # 0
  BY IndexKept DEF DeclaredIsStored
<1>2. CASE At(k, i) = 0 /\ DeclareStep
  <2>1. PICK decl \in Decl, replaces \in Annotations : Declare(decl, replaces)
    BY <1>2 DEF DeclareStep
  <2>2. CASE k = decl.kind /\ i = decl.id
    BY <1>2, <2>1, <2>2, DeclareEffect DEF registry, At
  <2>3. CASE k # decl.kind \/ i # decl.id
    <3>1. /\ Entry(decl) \in Declaration
          /\ Entry(decl).space = decl.kind /\ Entry(decl).id = decl.id
      BY DEF Entry, Decl, Declaration, Spaces
    <3>2. declaration_index'[<<k, i>>] = At(k, i)
      BY <2>1, <2>3, <3>1, OfferCases DEF Declare, TypeOK, LedgerTypeOK, At, Spaces
    <3> QED BY <1>2, <3>2
  <2> QED BY <2>2, <2>3
<1>3. CASE At(k, i) = 0 /\ GenericStep
  <2>1. PICK d \in Declaration, replaces \in Annotations :
            Offer(d, replaces) /\ d.space \in GenericSpaces
    BY <1>3 DEF GenericStep
  <2>2. declaration_index'[<<k, i>>] = At(k, i)
    BY <2>1, OfferCases DEF TypeOK, LedgerTypeOK, At, Spaces
  <2> QED BY <1>3, <2>2
<1>4. CASE UNCHANGED declaration_index
  BY <1>1, <1>4 DEF At
<1> QED BY <1>1, <1>2, <1>3, <1>4, StepShape DEF ExtendStep, ReportStep, registry, vars

\* The pass, of the first two, that has visited the statement at a position.
Visited(q, pass) ==
    \/ q[1] < group
    \/ q[1] = group /\ (phase > pass - 1 \/ (phase = pass - 1 /\ q[2] < at))

\* What a finished pass declares goes on being declared.
VisitedDeclared ==
    \A q \in Positions :
        LET d == StatementAt(q)
        IN  d.replaces = NoReplaces =>
              /\ (d.key = "schema" /\ Visited(q, 1)) => index["schema"][d.id] # 0
              /\ (d.key = "class" /\ Visited(q, 2)) => index["class"][d.id] # 0

\* A group begins at its first statement.
Restarted == phase = Len(Passes) => at = 1

FInv == DeclaredIsStored /\ VisitedDeclared /\ Restarted /\ ForwardReferencesResolve

\* A position of a program, and the statement there.
LEMMA PositionType ==
    ASSUME PositionOK, NEW q \in Positions
    PROVE  /\ q = <<q[1], q[2]>>
           /\ q[1] \in 1..Len(program)
           /\ q[2] \in 1..Len(program[q[1]].statements)
           /\ StatementAt(q) \in Statement
<1>1. PICK g \in DOMAIN program : \E i \in DOMAIN program[g].statements : q = <<g, i>>
  BY DEF Positions
<1>2. PICK i \in DOMAIN program[g].statements : q = <<g, i>>
  BY <1>1
<1>3. program \in Seq(Group) /\ g \in 1..Len(program)
  BY ProgramsAssumption DEF PositionOK
<1>4. program[g] \in Group
  BY <1>3, ElementType
<1>5. program[g].statements \in Seq(Statement) /\ i \in 1..Len(program[g].statements)
  BY <1>4 DEF Group
<1>6. program[g].statements[i] \in Statement
  BY <1>5, ElementType
<1> QED BY <1>2, <1>3, <1>5, <1>6 DEF StatementAt

\* An offer without @replaces leaves its key declared, whatever it answers.
LEMMA PlainDeclarationHolds ==
    ASSUME IInv, DeclaredIsStored, NEW decl \in Decl, Declare(decl, NoReplaces)
    PROVE  index'[decl.kind][decl.id] # 0
<1>1. CASE Verdict(Entry(decl), NoReplaces) \notin Refusals
  BY <1>1, DeclareEffect DEF IInv, Annotations
<1>2. CASE Verdict(Entry(decl), NoReplaces) \in Refusals
  <2>1. Verdict(Entry(decl), NoReplaces) # "Fresh"
    BY <1>2 DEF Refusals
  <2>2. At(decl.kind, decl.id) # 0
    BY <2>1 DEF Verdict, Entry
  <2>3. index[decl.kind][decl.id] # 0
    BY <2>2 DEF DeclaredIsStored, Decl
  <2> QED BY <1>2, <2>3, DeclareEffect DEF IInv, Annotations, registry
<1> QED BY <1>1, <1>2

\* The statement visited is the one more that its pass has visited.
LEMMA VisitedMore ==
    ASSUME PositionOK, Restarted, [LoadNext]_all, NEW q \in Positions, NEW pass \in 1..4,
           Visited(q, pass)', ~Visited(q, pass)
    PROVE  /\ Visit /\ phase = pass - 1
           /\ q = <<group, at>> /\ StatementAt(q) = Statements[at]
<1>1. /\ q = <<q[1], q[2]>> /\ q[1] \in 1..Len(program)
      /\ q[2] \in 1..Len(program[q[1]].statements)
  BY PositionType
<1> USE DEF PositionOK
<1>2. CASE Visit
  <2>1. q[1] = group /\ phase = pass - 1 /\ q[2] = at
    BY <1>1, <1>2 DEF Visit, Visited
  <2> QED BY <1>1, <1>2, <2>1 DEF StatementAt, Statements
<1>3. CASE NextPass
  <2>1. q[1] = group => q[2] < at
    BY <1>1, <1>3 DEF NextPass, Statements
  <2> QED BY <1>1, <1>3, <2>1 DEF NextPass, Visited
<1>4. CASE NextGroup
  <2>1. q[1] < group + 1 /\ phase = 4
    BY <1>1, <1>4 DEF NextGroup, Visited, Passes, Restarted
  <2> QED BY <1>1, <2>1 DEF Visited
<1>5. CASE CheckRequirements \/ CheckLibraryManifests \/ UNCHANGED all
  BY <1>1, <1>5 DEF CheckRequirements, CheckLibraryManifests, Visited, all
<1> QED BY <1>2, <1>3, <1>4, <1>5 DEF LoadNext

LEMMA StepVisitedDeclared ==
    ASSUME GenericSpaces \cap Kinds = {}, Ids \cap Forms = {},
           LInv, DeclaredIsStored, VisitedDeclared, Restarted, [LoadNext]_all
    PROVE  VisitedDeclared'
<1>1. PositionOK /\ IInv /\ [Next]_vars
  BY LoadStepIsRegistryStep DEF LInv
<1>2. UNCHANGED program
  BY DEF LoadNext, Visit, NextPass, NextGroup, CheckRequirements, CheckLibraryManifests, all
<1>3. SUFFICES ASSUME NEW q \in Positions, StatementAt(q).replaces = NoReplaces
               PROVE  LET d == StatementAt(q)
                      IN  /\ (d.key = "schema" /\ Visited(q, 1)') => index'["schema"][d.id] # 0
                          /\ (d.key = "class" /\ Visited(q, 2)') => index'["class"][d.id] # 0
  BY <1>2 DEF VisitedDeclared, Positions, StatementAt
<1> DEFINE d == StatementAt(q)
<1>4. d \in Statement /\ d.id \in Ids
  BY <1>1, PositionType DEF Statement
<1>5. ASSUME NEW kind \in Kinds, index[kind][d.id] # 0 PROVE index'[kind][d.id] # 0
  BY <1>1, <1>4, <1>5, IndexKept
<1>6. ASSUME d.key = "schema", Visited(q, 1)' PROVE index'["schema"][d.id] # 0
  <2>1. CASE Visited(q, 1)
    BY <1>3, <1>5, <1>6, <2>1 DEF VisitedDeclared, Kinds
  <2>2. CASE ~Visited(q, 1)
    <3>1. Visit /\ phase = 0 /\ d = Statements[at]
      BY <1>1, <1>6, <2>2, VisitedMore
    <3>2. DeclareSchema(d.id, Owner, d.sealed, d.members, NoReplaces)
      BY <1>3, <1>6, <3>1 DEF Visit, Passes, ReadSchemas
    <3> DEFINE decl == [kind |-> "schema", id |-> d.id, owner |-> Owner, sealed |-> d.sealed,
                        root |-> FALSE, parent |-> Undeclared, members |-> d.members]
    <3>3. decl \in Decl
      BY <1>1, <1>4, <3>1, VisitedStatement DEF Visit, Decl, Kinds, Statement
    <3>4. Declare(decl, NoReplaces) /\ decl.kind = "schema" /\ decl.id = d.id
      BY <3>2 DEF DeclareSchema
    <3> HIDE DEF decl, d
    <3> QED BY <1>1, <3>3, <3>4, PlainDeclarationHolds
  <2> QED BY <2>1, <2>2
<1>7. ASSUME d.key = "class", Visited(q, 2)' PROVE index'["class"][d.id] # 0
  <2>1. CASE Visited(q, 2)
    BY <1>3, <1>5, <1>7, <2>1 DEF VisitedDeclared, Kinds
  <2>2. CASE ~Visited(q, 2)
    <3>1. Visit /\ phase = 1 /\ d = Statements[at]
      BY <1>1, <1>7, <2>2, VisitedMore
    <3>2. FoldDeclarations(d)
      BY <3>1 DEF Visit, Passes
    <3>3. DeclareClass(d.id, Owner, d.sealed, d.root /\ d.parent = Undeclared, d.parent,
                       d.members, NoReplaces)
      BY <1>3, <1>7, <3>2 DEF FoldDeclarations, FoldDeclaration, IsForm, Forms
    <3> DEFINE root == d.root /\ d.parent = Undeclared
               decl == [kind |-> "class", id |-> d.id, owner |-> Owner, sealed |-> d.sealed,
                        root |-> root /\ ~Demoted(d.id, root),
                        parent |-> d.parent, members |-> d.members]
    <3>4. (root /\ ~Demoted(d.id, root)) \in BOOLEAN
      OBVIOUS
    <3>5. decl \in Decl
      BY <1>1, <1>4, <3>1, <3>4, VisitedStatement DEF Visit, Decl, Kinds, Statement
    <3>6. Declare(decl, NoReplaces) /\ decl.kind = "class" /\ decl.id = d.id
      BY <3>3 DEF DeclareClass
    <3> HIDE DEF decl, d
    <3> QED BY <1>1, <3>5, <3>6, PlainDeclarationHolds
  <2> QED BY <2>1, <2>2
<1> QED BY <1>6, <1>7

\* What a step reports of which statement.
LEMMA ReportsOfVisit ==
    ASSUME LInv, [LoadNext]_all, NEW p \in Positions,
           NEW codes, "ProvidesMismatch" \notin codes,
           Reported(p, codes)', ~Reported(p, codes)
    PROVE  /\ Visit
           /\ p = <<group, at>> /\ StatementAt(p) = Statements[at]
           /\ \E code \in codes : Report(Statements[at], code)
<1>1. p = <<p[1], p[2]>> /\ p[1] \in 1..Len(program)
  BY PositionType DEF LInv
<1>2. CASE Visit
  <2> DEFINE s == Statements[at]
  <2>1. ReadSchemas(s) \/ FoldDeclarations(s) \/ NoteObjects(s) \/ CheckTopLevel(s)
    BY <1>2 DEF Visit
  <2>2. ~UNCHANGED reports
    BY DEF Reported
  <2> HIDE DEF s
  <2>3. \E code : Report(s, code)
    BY <2>1, <2>2 DEF ReadSchemas, FoldDeclarations, FoldDeclaration, NoteObjects,
                      CheckTopLevel, ReportAnswer
  <2>4. PICK code : Report(s, code)
    BY <2>3
  <2>5. p = <<group, at>> /\ code \in codes
    BY <2>4 DEF Report, Reported
  <2>6. StatementAt(p) = s
    BY <2>5 DEF StatementAt, s, Statements
  <2> QED BY <1>2, <2>4, <2>5, <2>6 DEF s
<1>3. CASE CheckRequirements
  <2>1. \A r \in reports' : r \in reports \/ r.group = 0
    BY <1>3 DEF CheckRequirements
  <2> QED BY <1>1, <2>1 DEF Reported
<1>4. CASE CheckLibraryManifests
  <2>1. \A r \in reports' : r \in reports \/ r.code = "ProvidesMismatch"
    BY <1>4 DEF CheckLibraryManifests
  <2> QED BY <2>1 DEF Reported
<1>5. CASE UNCHANGED reports
  BY <1>5 DEF Reported
<1> QED BY <1>2, <1>3, <1>4, <1>5 DEF LoadNext, NextPass, NextGroup, all

\* A report that was not there before is the one the step makes.
LEMMA NewReport ==
    ASSUME NEW s, NEW code, Report(s, code), ~Reported(<<group, at>>, {code})
    PROVE  reports' # reports /\ \A other : Report(s, other) => other = code
<1> DEFINE r == [group |-> group, at |-> at, code |-> code]
<1>1. r \notin reports
  BY DEF Reported
<1>2. r \in reports'
  BY DEF Report
<1>3. \A other : Report(s, other) => r = [group |-> group, at |-> at, code |-> other]
  BY <1>1, <1>2 DEF Report
<1> QED BY <1>1, <1>2, <1>3

\* Which pass reports what, and of what.
LEMMA ReportMeans ==
    ASSUME Ids \cap (Forms \cup {"object"}) = {}, LInv, Visit,
           NEW s, s = Statements[at], s \in Statement,
           NEW code, Report(s, code), ~Reported(<<group, at>>, {code})
    PROVE  /\ code = "UnknownKey" => phase = 3 /\ ~IsForm(s.key) /\ ~IsClass(s.key)
           /\ code = "RefUnresolved" => phase = 3 /\ At("class", s.of) = 0
           /\ (code = "SchemaInvalid" /\ s.key = "schema_extension") =>
                 phase = 1 /\ index["schema"][s.id] = 0
<1>1. last'.answer \in Answers
  BY VisitIsRegistryStep, StepIInv DEF LInv, IInv, TypeOK
<1>2. reports' # reports /\ \A other : Report(s, other) => other = code
  BY NewReport
<1>3. ReportAnswer(s) => code = last'.answer
  BY <1>2 DEF ReportAnswer
<1>4. code \in Answers => code # "UnknownKey" /\ code # "RefUnresolved"
  BY DEF Answers, Refusals
<1>5. phase \in Nat /\ phase < 4
  BY DEF LInv, PositionOK, Visit, Passes
<1>6. CASE ReadSchemas(s)
  <2>1. s.key = "schema" /\ code \in Answers
    BY <1>1, <1>2, <1>3, <1>6 DEF ReadSchemas
  <2> QED BY <1>4, <2>1
<1>7. CASE phase = 1 /\ FoldDeclarations(s)
  <2>1. code = last'.answer \/ code = "CoreReserved"
    BY <1>2, <1>3, <1>7 DEF FoldDeclarations, FoldDeclaration
  <2>2. ASSUME code = "SchemaInvalid", s.key = "schema_extension"
        PROVE  index["schema"][s.id] = 0
    <3>1. ApplySchemaExtension(s.id, s.members) /\ ReportAnswer(s)
      BY <1>2, <1>7, <2>2 DEF FoldDeclarations, FoldDeclaration, IsForm, Forms
    <3> QED BY <1>3, <2>2, <3>1 DEF ApplySchemaExtension
  <2> QED BY <1>1, <1>4, <1>7, <2>1, <2>2
<1>8. CASE NoteObjects(s)
  <2>1. ObjectClass(s) # Undeclared /\ code \in Answers
    BY <1>1, <1>2, <1>3, <1>8 DEF NoteObjects
  <2>2. s.key # "schema_extension"
    BY <2>1 DEF ObjectClass, IsClass, Forms
  <2> QED BY <1>4, <2>1, <2>2
<1>9. CASE phase = 3 /\ CheckTopLevel(s)
  BY <1>2, <1>9 DEF CheckTopLevel
<1> QED
  <2>1. \/ Passes[phase + 1] = "schemas" /\ ReadSchemas(s)
        \/ Passes[phase + 1] = "declarations" /\ FoldDeclarations(s)
        \/ Passes[phase + 1] = "objects" /\ NoteObjects(s)
        \/ Passes[phase + 1] = "checks" /\ CheckTopLevel(s)
    BY DEF Visit
  <2>2. phase \in 0..3
    BY <1>5
  <2>3. /\ Passes[phase + 1] = "declarations" => phase = 1
        /\ Passes[phase + 1] = "checks" => phase = 3
    BY <2>2 DEF Passes
  <2> QED BY <1>6, <1>7, <1>8, <1>9, <2>1, <2>3

LEMMA StepForwardReferences ==
    ASSUME Ids \cap (Forms \cup {"object"}) = {}, LInv, StoredIsDeclared,
           VisitedDeclared, ForwardReferencesResolve, [LoadNext]_all
    PROVE  ForwardReferencesResolve'
<1>1. PositionOK /\ IInv
  BY DEF LInv
<1>2. UNCHANGED program
  BY DEF LoadNext, Visit, NextPass, NextGroup, CheckRequirements, CheckLibraryManifests, all
<1>3. SUFFICES ASSUME NEW p \in Positions, NEW q \in Positions,
                      q[1] <= p[1], StatementAt(q).replaces = NoReplaces
               PROVE  LET s == StatementAt(p)
                          d == StatementAt(q)
                      IN  /\ (d.key \in {"schema", "class"} /\ d.id = s.key) =>
                                ~Reported(p, {"UnknownKey"})'
                          /\ (d.key = "class" /\ s.key = "object" /\ d.id = s.of) =>
                                ~Reported(p, {"RefUnresolved"})'
                          /\ (d.key = "schema" /\ s.key = "schema_extension" /\ d.id = s.id) =>
                                ~Reported(p, {"SchemaInvalid"})'
  BY <1>2 DEF ForwardReferencesResolve, Positions, StatementAt, Reported
<1> DEFINE s == StatementAt(p)
           d == StatementAt(q)
<1>4. /\ s \in Statement /\ d \in Statement /\ d.id \in Ids
      /\ q[1] \in Nat /\ q = <<q[1], q[2]>>
  BY <1>1, PositionType DEF Statement
<1>5. ASSUME p = <<group, at>>
      PROVE  \A pass \in 1..2 : phase > pass - 1 => Visited(q, pass)
  BY <1>1, <1>3, <1>4, <1>5 DEF Visited, PositionOK
<1>6. ASSUME d.key \in {"schema", "class"}, d.id = s.key, Reported(p, {"UnknownKey"})'
      PROVE  FALSE
  <2>1. ~Reported(p, {"UnknownKey"})
    BY <1>3, <1>6 DEF ForwardReferencesResolve
  <2>2. Visit /\ p = <<group, at>> /\ s = Statements[at] /\ Report(s, "UnknownKey")
    BY <1>6, <2>1, ReportsOfVisit
  <2>3. phase = 3 /\ ~IsForm(s.key) /\ ~IsClass(s.key)
    BY <1>4, <2>1, <2>2, ReportMeans
  <2>4. Visited(q, 1) /\ Visited(q, 2)
    BY <1>5, <2>2, <2>3
  <2>5. index["schema"][d.id] # 0 \/ index["class"][d.id] # 0
    BY <1>3, <1>6, <2>4 DEF VisitedDeclared
  <2> QED BY <1>4, <1>6, <2>3, <2>5 DEF IsForm, IsClass
<1>7. ASSUME d.key = "class", s.key = "object", d.id = s.of, Reported(p, {"RefUnresolved"})'
      PROVE  FALSE
  <2>1. ~Reported(p, {"RefUnresolved"})
    BY <1>3, <1>7 DEF ForwardReferencesResolve
  <2>2. Visit /\ p = <<group, at>> /\ s = Statements[at] /\ Report(s, "RefUnresolved")
    BY <1>7, <2>1, ReportsOfVisit
  <2>3. phase = 3 /\ At("class", s.of) = 0
    BY <1>4, <2>1, <2>2, ReportMeans
  <2>4. Visited(q, 2)
    BY <1>5, <2>2, <2>3
  <2>5. index["class"][d.id] # 0
    BY <1>3, <1>7, <2>4 DEF VisitedDeclared
  <2> QED BY <1>4, <1>7, <2>3, <2>5 DEF StoredIsDeclared, Kinds
<1>8. ASSUME d.key = "schema", s.key = "schema_extension", d.id = s.id,
             Reported(p, {"SchemaInvalid"})'
      PROVE  FALSE
  <2>1. ~Reported(p, {"SchemaInvalid"})
    BY <1>3, <1>8 DEF ForwardReferencesResolve
  <2>2. Visit /\ p = <<group, at>> /\ s = Statements[at] /\ Report(s, "SchemaInvalid")
    BY <1>8, <2>1, ReportsOfVisit
  <2>3. phase = 1 /\ index["schema"][s.id] = 0
    BY <1>4, <1>8, <2>1, <2>2, ReportMeans
  <2>4. Visited(q, 1)
    BY <1>5, <2>2, <2>3
  <2> QED BY <1>3, <1>8, <2>3, <2>4 DEF VisitedDeclared
<1> QED BY <1>6, <1>7, <1>8

\* "A reference may name something declared later in the same file, or in a
\* file that sorts after it" (spec 13.2), for every program whose names are
\* no keywords: by the time a pass looks a name up, every statement that may
\* declare it has been visited, and no later one takes it back.
THEOREM ForwardReferences ==
    ASSUME GenericSpaces \cap Kinds = {}, Ids \cap (Forms \cup {"object"}) = {}
    PROVE  LoadSpec => []ForwardReferencesResolve
<1>1. LoadInit => FInv
  <2> SUFFICES ASSUME LoadInit PROVE FInv
    OBVIOUS
  <2>1. DeclaredIsStored
    BY DEF LoadInit, Init, DeclaredIsStored, At, Spaces
  <2>2. \A q \in Positions : ~Visited(q, 1) /\ ~Visited(q, 2)
    <3>1. PositionOK
      BY DEF LoadInit, PositionOK
    <3> QED BY <3>1, PositionType DEF LoadInit, Visited
  <2> QED BY <2>1, <2>2 DEF LoadInit, FInv, VisitedDeclared, Restarted, Passes,
                            ForwardReferencesResolve, Reported
<1>2. LInv /\ FInv /\ [LoadNext]_all => FInv'
  <2> SUFFICES ASSUME LInv, FInv, [LoadNext]_all PROVE FInv'
    OBVIOUS
  <2>1. DeclaredIsStored'
    BY LoadStepIsRegistryStep, StepDeclaredIsStored DEF LInv, FInv
  <2>2. VisitedDeclared'
    BY StepVisitedDeclared DEF FInv
  <2>3. Restarted'
    BY DEF LInv, PositionOK, FInv, Restarted, Passes, LoadNext, Visit, NextPass, NextGroup,
           CheckRequirements, CheckLibraryManifests, all
  <2>4. ForwardReferencesResolve'
    BY StepForwardReferences DEF LInv, IInv, FInv
  <2> QED BY <2>1, <2>2, <2>3, <2>4 DEF FInv
<1>3. FInv => ForwardReferencesResolve
  BY DEF FInv
<1> QED BY <1>1, <1>2, <1>3, AlwaysLInv, PTL DEF LoadSpec

-----------------------------------------------------------------------------
(* Objects *)

\* An object is stored, or what refused it was reported.
Answered(i) ==
    ObjectClass(Statements[i]) # Undeclared =>
        \/ index["object"][Statements[i].id] # 0
        \/ Reported(<<group, i>>, Refusals)

\* What pass three has visited has been answered.
ObjectsAnswered ==
    (group <= Len(program) /\ phase \in {2, 3}) =>
        \A i \in DOMAIN Statements : (phase = 3 \/ i < at) => Answered(i)

\* The statements of the group being loaded.
LEMMA StatementsType ==
    ASSUME PositionOK, group <= Len(program)
    PROVE  Statements \in Seq(Statement)
<1>1. program \in Seq(Group) /\ group \in 1..Len(program)
  BY ProgramsAssumption DEF PositionOK
<1>2. program[group] \in Group
  BY <1>1, ElementType
<1> QED BY <1>2 DEF Statements, Group

\* Neither of the last two passes declares a class, so what a statement
\* instantiates is the same for both, and what is stored stays stored.
LEMMA AnsweredKept ==
    ASSUME LInv, [LoadNext]_all, phase \in {2, 3}, UNCHANGED group,
           group <= Len(program), NEW i \in DOMAIN Statements, Answered(i)
    PROVE  Answered(i)'
<1>1. UNCHANGED program
  BY DEF LoadNext, Visit, NextPass, NextGroup, CheckRequirements, CheckLibraryManifests, all
<1>2. Statements' = Statements
  BY <1>1 DEF Statements
<1>3. \A id \in Ids : index'["class"][id] = index["class"][id]
  <2>1. CASE Visit
    <3> DEFINE s == Statements[at]
    <3>1. Owner \in Owners /\ s \in Statement
      BY <2>1, VisitedStatement DEF LInv, Visit
    <3>2. NoteObjects(s) \/ CheckTopLevel(s)
      BY <2>1 DEF Visit, Passes
    <3> HIDE DEF s
    <3>3. CASE UNCHANGED vars
      BY <3>3 DEF vars
    <3>4. CASE DeclareObject(s.id, Owner, s.replaces)
      <4> DEFINE decl == [kind |-> "object", id |-> s.id, owner |-> Owner, sealed |-> FALSE,
                          root |-> FALSE, parent |-> Undeclared, members |-> NoMembers]
      <4>1. decl \in Decl /\ s.replaces \in Annotations
        BY <3>1 DEF Decl, Kinds, NoMembers, Members, Statement
      <4>2. Declare(decl, s.replaces) /\ decl.kind = "object"
        BY <3>4 DEF DeclareObject
      <4> HIDE DEF decl
      <4> QED BY <4>1, <4>2, DeclareEffect DEF LInv, IInv, Kinds
    <3> QED BY <3>2, <3>3, <3>4 DEF NoteObjects, CheckTopLevel
  <2>2. CASE ~Visit
    BY <2>2 DEF LoadNext, NextPass, NextGroup, CheckRequirements, CheckLibraryManifests, all, vars
  <2> QED BY <2>1, <2>2
<1>4. ObjectClass(Statements[i])' = ObjectClass(Statements[i])
  BY <1>2, <1>3 DEF ObjectClass, IsClass
<1>5. Statements[i].id \in Ids
  <2>1. Statements \in Seq(Statement)
    BY StatementsType DEF LInv
  <2>2. i \in 1..Len(Statements)
    BY <2>1
  <2>3. Statements[i] \in Statement
    BY <2>1, <2>2, ElementType
  <2> QED BY <2>3 DEF Statement
<1>6. index["object"][Statements[i].id] # 0 => index'["object"][Statements[i].id] # 0
  BY <1>5, LoadStepIsRegistryStep, IndexKept DEF LInv, Kinds
<1>7. reports \subseteq reports'
  BY DEF LoadNext, Visit, ReadSchemas, FoldDeclarations, FoldDeclaration, NoteObjects,
         CheckTopLevel, Report, ReportAnswer, NextPass, NextGroup, CheckRequirements, CheckLibraryManifests, all
<1> QED BY <1>2, <1>4, <1>6, <1>7 DEF Answered, Reported

\* An instantiation that is visited in pass three is stored or refused.
LEMMA VisitAnswers ==
    ASSUME LInv, Visit, phase = 2, NEW i, i = at
    PROVE  Answered(i)'
<1> DEFINE s == Statements[i]
<1>1. Owner \in Owners /\ s \in Statement
  BY VisitedStatement DEF LInv, Visit
<1>2. NoteObjects(s) /\ UNCHANGED <<program, group>>
  BY DEF Visit, Passes
<1>3. Statements' = Statements
  BY <1>2 DEF Statements
<1> HIDE DEF s
<1>4. CASE ObjectClass(s) = Undeclared
  <2>1. UNCHANGED <<index, program, group>>
    BY <1>2, <1>4 DEF NoteObjects, vars
  <2>2. ObjectClass(s)' = Undeclared
    BY <1>4, <2>1, <1>3 DEF ObjectClass, IsClass, s
  <2> QED BY <1>3, <2>2 DEF Answered, s
<1>5. CASE DeclareObject(s.id, Owner, s.replaces) /\ ReportAnswer(s)
  <2> DEFINE decl == [kind |-> "object", id |-> s.id, owner |-> Owner, sealed |-> FALSE,
                      root |-> FALSE, parent |-> Undeclared, members |-> NoMembers]
  <2>1. decl \in Decl /\ s.replaces \in Annotations
    BY <1>1 DEF Decl, Kinds, NoMembers, Members, Statement
  <2>2. Declare(decl, s.replaces) /\ decl.kind = "object" /\ decl.id = s.id
    BY <1>5 DEF DeclareObject
  <2> HIDE DEF decl
  <2>3. CASE Verdict(Entry(decl), s.replaces) \notin Refusals
    <3>1. index'["object"][s.id] # 0
      BY <2>1, <2>2, <2>3, DeclareEffect DEF LInv, IInv
    <3> QED BY <1>3, <3>1 DEF Answered, s
  <2>4. CASE Verdict(Entry(decl), s.replaces) \in Refusals
    <3>1. last'.answer \in Refusals
      BY <2>2, <2>4 DEF Declare, Offer
    <3>2. Report(s, last'.answer)
      BY <1>5, <3>1 DEF ReportAnswer, Refusals
    <3> DEFINE r == [group |-> group, at |-> i, code |-> last'.answer]
    <3>3. r \in reports' /\ <<r.group, r.at>> = <<group', i>> /\ r.code \in Refusals
      BY <1>2, <3>1, <3>2 DEF Report
    <3>4. Reported(<<group, i>>, Refusals)'
      BY <3>3 DEF Reported
    <3> QED BY <1>3, <3>4 DEF Answered, s
  <2> QED BY <2>3, <2>4
<1> QED BY <1>2, <1>4, <1>5 DEF NoteObjects

\* When a group is checked every instantiation in it has been stored or
\* refused, whatever else is in the group and in whatever order: pass three
\* comes after all classes are declared.
THEOREM ObjectsAreComplete == LoadSpec => []ObjectsComplete
<1>1. LoadInit => ObjectsAnswered
  BY DEF LoadInit, ObjectsAnswered
<1>2. LInv /\ ObjectsAnswered /\ [LoadNext]_all => ObjectsAnswered'
  <2> SUFFICES ASSUME LInv, ObjectsAnswered, [LoadNext]_all,
                      group' <= Len(program'), phase' \in {2, 3},
                      NEW i \in DOMAIN Statements', phase' = 3 \/ i < at'
               PROVE  Answered(i)'
    BY DEF ObjectsAnswered
  <2>1. UNCHANGED program
    BY DEF LoadNext, Visit, NextPass, NextGroup, CheckRequirements, CheckLibraryManifests, all
  <2>2. UNCHANGED group
    BY DEF LInv, PositionOK, LoadNext, Visit, NextPass, NextGroup, CheckRequirements, CheckLibraryManifests, all
  <2>3. group <= Len(program) /\ i \in DOMAIN Statements /\ Statements' = Statements
    BY <2>1, <2>2 DEF Statements
  <2>4. i \in Nat \ {0} /\ i <= Len(Statements)
    <3>1. Statements \in Seq(Statement)
      BY <2>3, StatementsType DEF LInv
    <3> QED BY <2>3, <3>1
  <2>5. CASE phase \in {2, 3} /\ (phase = 3 \/ i < at)
    <3>1. Answered(i)
      BY <2>3, <2>5 DEF ObjectsAnswered
    <3> QED BY <2>2, <2>3, <2>5, <3>1, AnsweredKept
  <2>6. CASE Visit /\ phase = 2 /\ i = at
    BY <2>6, VisitAnswers
  <2>7. \/ phase \in {2, 3} /\ (phase = 3 \/ i < at)
        \/ Visit /\ phase = 2 /\ i = at
    BY <2>3, <2>4 DEF LInv, PositionOK, LoadNext, Visit, NextPass, NextGroup,
                      CheckRequirements, CheckLibraryManifests, all
  <2> QED BY <2>5, <2>6, <2>7
<1>3. ObjectsAnswered => ObjectsComplete
  BY DEF ObjectsAnswered, ObjectsComplete, Answered
<1> QED BY <1>1, <1>2, <1>3, AlwaysLInv, PTL DEF LoadSpec
=============================================================================
