------------------------ MODULE ConfigLoader_proof ------------------------
(***************************************************************************)
(* Proofs about ConfigLoader, for any files and environments, loaded any   *)
(* number of times in any order, with copies that fail or not: no string   *)
(* of a configuration is lost, left dangling or freed twice, and the last  *)
(* source to name a setting decides it.                                    *)
(***************************************************************************)
EXTENDS ConfigLoader, FiniteSetTheorems, SequenceTheorems, TLAPS

\* A string is NULL or in a block; the blocks in use are those of the strings.
StringsInv ==
  /\ strings = [host |-> strings.host, log_file |-> strings.log_file]
  /\ \A s \in StringSetting : strings[s] = NULL \/ strings[s].block \in Nat \ {0}
  /\ heap = {strings.host.block, strings.log_file.block} \ {0}

Inv == StringsInv /\ StringsOwnedOnce

-----------------------------------------------------------------------------
(* Lemmas about the operators.                                             *)

LEMMA PortNumber == MaxPort \in Nat
  BY DEF MaxPort

\* Some of what config_validate accepts.
LEMMA Validated ==
  ASSUME config_validate
  PROVE  /\ config.port \in 1 .. MaxPort /\ config.max_connections >= 1
         /\ config.buffer_size >= 1024
         /\ strings.host # NULL
BY ZenonT(30) DEF config_validate

LEMMA NullBlock == NULL.block = 0
BY DEF NULL

\* Among the first n + 1 blocks one is not among n in use.
LEMMA FreeBlock ==
  ASSUME NEW used, IsFiniteSet(used)
  PROVE  \E b \in 1 .. Cardinality(used) + 1 : b \notin used
<1> DEFINE n == Cardinality(used)
<1>1. n \in Nat
  BY FS_CardinalityType
<1>2. SUFFICES ASSUME 1 .. n + 1 \subseteq used
               PROVE  FALSE
  OBVIOUS
<1>3. Cardinality(1 .. n + 1) = n + 1
  BY <1>1, FS_Interval
<1>4. Cardinality(1 .. n + 1) <= n
  BY <1>2, FS_Subset
<1> QED
  BY <1>1, <1>3, <1>4

\* A copy is NULL, or in a block that was not in use.
LEMMA Copies ==
  ASSUME NEW text, NEW used, IsFiniteSet(used), NEW copy \in strdup(text, used)
  PROVE  copy = NULL \/ (copy.block \in Nat \ {0} /\ copy.block \notin used)
<1> DEFINE b == CHOOSE b \in 1 .. Cardinality(used) + 1 : b \notin used
<1>1. Cardinality(used) \in Nat
  BY FS_CardinalityType
<1>2. b \in 1 .. Cardinality(used) + 1 /\ b \notin used
  BY FreeBlock
<1>3. copy = NULL \/ copy = [block |-> b, text |-> text]
  BY DEF strdup
<1> HIDE DEF b
<1> QED
  BY <1>1, <1>2, <1>3

\* The blocks of two strings are finitely many.
LEMMA PairIsFinite ==
  ASSUME NEW a, NEW b, NEW S \in SUBSET {a, b}
  PROVE  IsFiniteSet(S)
<1>1. IsFiniteSet({a} \cup {b})
  BY FS_Singleton, FS_AddElement
<1>2. S \in SUBSET ({a} \cup {b})
  OBVIOUS
<1> QED
  BY <1>1, <1>2, FS_Subset

\* StringsOwnedOnce, string by string.
LEMMA Owned ==
  ASSUME StringsInv
  PROVE  StringsOwnedOnce <=>
           /\ strings.host.block = strings.log_file.block => strings.host = NULL
           /\ pc = "none" => heap = {}
<1>1. {strings[s].block : s \in StringSetting}
        = {strings.host.block, strings.log_file.block}
  BY DEF StringSetting
<1> QED
  BY <1>1 DEF StringsOwnedOnce, StringsInv

-----------------------------------------------------------------------------
(* The invariant is preserved by every step.                               *)

LEMMA InitInv == Init => Inv
<1> SUFFICES ASSUME Init
             PROVE  Inv
  OBVIOUS
<1>1. strings = [host |-> NULL, log_file |-> NULL]
  BY DEF Init, StringSetting
<1>2. strings.host = NULL /\ strings.log_file = NULL
  BY <1>1
<1>3. heap = {} /\ {strings.host.block, strings.log_file.block} = {0}
  BY <1>2, NullBlock DEF Init
<1>4. \A s \in StringSetting : strings[s] = NULL
  BY DEF Init
<1>5. StringsInv
  BY <1>1, <1>2, <1>3, <1>4 DEF StringsInv
<1> QED
  BY <1>2, <1>5, Owned DEF Init, Inv

\* Both strings are new, in different blocks; or nothing changes.
LEMMA NewStep ==
  ASSUME Inv, config_new
  PROVE  Inv'
<1>1. PICK host \in strdup(DefaultText.host, {}) :
        \E log_file \in strdup(DefaultText.log_file, {host.block}) :
          \/ /\ NULL \notin {host, log_file}
             /\ strings' = [host |-> host, log_file |-> log_file]
             /\ heap' = {host.block, log_file.block}
             /\ pc' = "idle"
          \/ UNCHANGED <<strings, heap, pc>>
  BY DEF config_new
<1>2. PICK log_file \in strdup(DefaultText.log_file, {host.block}) :
        \/ /\ NULL \notin {host, log_file}
           /\ strings' = [host |-> host, log_file |-> log_file]
           /\ heap' = {host.block, log_file.block}
           /\ pc' = "idle"
        \/ UNCHANGED <<strings, heap, pc>>
  BY <1>1
<1>3. host = NULL \/ host.block \in Nat \ {0}
  BY Copies, FS_EmptySet
<1>4. log_file = NULL \/ (log_file.block \in Nat \ {0} /\ log_file.block # host.block)
  <2>1. IsFiniteSet({host.block})
    BY FS_Singleton
  <2> QED
    BY <2>1, Copies
<1>5. CASE UNCHANGED <<strings, heap, pc>>
  BY <1>5 DEF Inv, StringsInv, StringsOwnedOnce
<1>6. CASE /\ NULL \notin {host, log_file}
           /\ strings' = [host |-> host, log_file |-> log_file]
           /\ heap' = {host.block, log_file.block}
           /\ pc' = "idle"
  <2>1. StringsInv'
    BY <1>3, <1>4, <1>6 DEF StringsInv, StringSetting
  <2>2. {strings'[s].block : s \in StringSetting} = {host.block, log_file.block}
    BY <1>6 DEF StringSetting
  <2>3. StringsOwnedOnce'
    BY <1>3, <1>4, <1>6, <2>2 DEF StringsOwnedOnce
  <2> QED
    BY <2>1, <2>3 DEF Inv
<1> QED
  BY <1>2, <1>5, <1>6

\* A string that is assigned gives its block back before it gets another, which
\* is therefore not the other string's.
LEMMA AssignStep ==
  ASSUME Inv, pc = "loading", pc' = pc, NEW piece, Assign(piece)
  PROVE  Inv'
<1> DEFINE key == piece.key
<1>1. CASE UNCHANGED <<strings, heap>>
  BY <1>1 DEF Inv, StringsInv, StringsOwnedOnce
<1>2. CASE key \in StringSetting /\ ~UNCHANGED <<strings, heap>>
  <2> DEFINE left == heap \ {strings[key].block}
             other == IF key = "host" THEN "log_file" ELSE "host"
  <2>1. PICK copy \in strdup(piece.value.text, left) :
          /\ strings' = [strings EXCEPT ![key] = copy]
          /\ heap' = left \cup ({copy.block} \ {0})
    BY <1>2 DEF Assign
  <2>2. IsFiniteSet(left)
    <3>1. left \in SUBSET {strings.host.block, strings.log_file.block}
      BY DEF Inv, StringsInv
    <3> QED
      BY <3>1, PairIsFinite
  <2>3. copy = NULL \/ (copy.block \in Nat \ {0} /\ copy.block \notin left)
    BY <2>2, Copies
  <2>4. /\ key \in StringSetting /\ other \in StringSetting /\ key # other
        /\ StringSetting = {key, other}
    BY <1>2 DEF StringSetting
  <2>5. strings'[key] = copy /\ strings'[other] = strings[other]
    BY <2>1, <2>4 DEF Inv, StringsInv, StringSetting
  <2>6. left = {strings[other].block} \ {0}
    <3>1. heap = {strings[key].block, strings[other].block} \ {0}
      BY <1>2 DEF Inv, StringsInv, StringSetting
    <3>2. strings[key].block = strings[other].block => strings[other].block = 0
      BY <1>2, NullBlock DEF Inv, StringsInv, StringsOwnedOnce, StringSetting
    <3> QED
      BY <3>1, <3>2
  <2>7. heap' = {copy.block, strings[other].block} \ {0}
    BY <2>1, <2>6
  <2>8. strings' = [host |-> strings'.host, log_file |-> strings'.log_file]
    BY <2>1, <1>2 DEF Inv, StringsInv, StringSetting
  <2>9. strings[other] = NULL \/ strings[other].block \in Nat \ {0}
    BY <2>4 DEF Inv, StringsInv
  <2>10. copy.block = strings[other].block => copy = NULL /\ strings[other] = NULL
    BY <2>3, <2>6, <2>9, NullBlock
  <2>11. StringsInv'
    BY <1>2, <2>3, <2>4, <2>5, <2>7, <2>8, <2>9 DEF StringsInv, StringSetting
  <2>12. StringsOwnedOnce'
    <3>1. {strings'[s].block : s \in StringSetting} = {copy.block, strings[other].block}
      BY <2>4, <2>5
    <3>2. strings'.host.block = strings'.log_file.block => strings'.host = NULL
      BY <1>2, <2>5, <2>10 DEF StringSetting
    <3> QED
      BY <2>7, <3>1, <3>2 DEF StringsOwnedOnce
  <2> QED
    BY <2>11, <2>12 DEF Inv
<1> QED
  BY <1>1, <1>2 DEF Assign

\* Everything the configuration had is given back.
LEMMA FreeStep ==
  ASSUME Inv, config_free
  PROVE  Inv'
<1>1. strings' = [host |-> NULL, log_file |-> NULL]
  BY DEF config_free, StringSetting
<1>2. heap' = {}
  BY DEF config_free, Inv, StringsInv
<1>3. \A s \in StringSetting : strings'[s] = NULL
  BY DEF config_free
<1>4. strings'.host = NULL /\ strings'.log_file = NULL
  BY <1>1
<1>5. {strings'[s].block : s \in StringSetting} = {0}
  BY <1>3, NullBlock DEF StringSetting
<1>6. StringsInv'
  BY <1>1, <1>2, <1>3, <1>4, NullBlock DEF StringsInv
<1>7. StringsOwnedOnce'
  BY <1>2, <1>4, <1>5 DEF StringsOwnedOnce
<1> QED
  BY <1>6, <1>7 DEF Inv

LEMMA NextInv == Inv /\ [Next]_vars => Inv'
<1> SUFFICES ASSUME Inv, [Next]_vars
             PROVE  Inv'
  OBVIOUS
<1>1. CASE config_new
  BY <1>1, NewStep
<1>2. CASE \E source, assignments : Load(source, assignments)
  BY <1>2 DEF Load, Inv, StringsInv, StringsOwnedOnce
<1>3. CASE Step
  <2>1. CASE todo # <<>> /\ Assign(Head(todo)) /\ UNCHANGED pc
    BY <1>3, <2>1, AssignStep DEF Step
  <2>2. CASE pc' = "idle" /\ UNCHANGED <<config, strings, heap, todo>>
    BY <2>2 DEF Inv, StringsInv, StringsOwnedOnce
  <2> QED
    BY <1>3, <2>1, <2>2 DEF Step
<1>4. CASE config_free
  BY <1>4, FreeStep
<1>5. CASE UNCHANGED vars
  BY <1>5 DEF vars, Inv, StringsInv, StringsOwnedOnce
<1>6. (\E file \in File : config_load_from_file(file))
        => \E source, assignments : Load(source, assignments)
  BY DEF config_load_from_file
<1>7. (\E env \in Environment : config_load_from_env(env))
        => \E source, assignments : Load(source, assignments)
  BY DEF config_load_from_env
<1> QED
  BY <1>1, <1>2, <1>3, <1>4, <1>5, <1>6, <1>7 DEF Next

\* The strings of a configuration and the blocks in use correspond one to one,
\* however often settings are given again and copies fail.
THEOREM Ownership == Spec => []StringsOwnedOnce
<1>1. Inv => StringsOwnedOnce
  BY DEF Inv
<1> QED
  BY <1>1, InitInv, NextInv, PTL DEF Spec

-----------------------------------------------------------------------------
(* What the sources assign.                                                *)

Item == Piece \cup {Nothing}
Source == [from: {"file"}, says: File] \cup [from: {"env"}, says: Environment]

\* What a source assigns, one after the other.
Assigned(source) ==
  IF source.from = "file" THEN source.says
  ELSE [i \in 1 .. Len(EnvironmentOrder) |->
          LET s == EnvironmentOrder[i]
          IN IF s \in DOMAIN source.says
             THEN [key |-> s, value |-> AsItStands(source.says[s]), rest |-> FALSE]
             ELSE Nothing]

LEMMA Order ==
  /\ Len(EnvironmentOrder) = 8
  /\ \A i \in 1 .. 8 : EnvironmentOrder[i] \in Setting
  /\ \A i, j \in 1 .. 8 : EnvironmentOrder[i] = EnvironmentOrder[j] => i = j
  /\ \A s \in Setting \ {"keep_alive_timeout", "max_request_size"} :
       \E i \in 1 .. 8 : EnvironmentOrder[i] = s
<1>1. Len(EnvironmentOrder) = 8
  BY DEF EnvironmentOrder
<1>2. /\ EnvironmentOrder[1] = "port" /\ EnvironmentOrder[2] = "thread_num"
      /\ EnvironmentOrder[3] = "timeout" /\ EnvironmentOrder[4] = "max_connections"
      /\ EnvironmentOrder[5] = "host" /\ EnvironmentOrder[6] = "log_file"
      /\ EnvironmentOrder[7] = "log_level" /\ EnvironmentOrder[8] = "buffer_size"
  BY DEF EnvironmentOrder
<1>3. \A i \in 1 .. 8 : i = 1 \/ i = 2 \/ i = 3 \/ i = 4 \/ i = 5 \/ i = 6 \/ i = 7 \/ i = 8
  OBVIOUS
<1>4. \A i \in 1 .. 8 : EnvironmentOrder[i] \in Setting
  BY <1>2, <1>3 DEF Setting, IntSetting, StringSetting
<1>5. \A i, j \in 1 .. 8 : EnvironmentOrder[i] = EnvironmentOrder[j] => i = j
  BY <1>2, <1>3
<1>6. \A s \in Setting \ {"keep_alive_timeout", "max_request_size"} :
        \E i \in 1 .. 8 : EnvironmentOrder[i] = s
  BY <1>2 DEF Setting, IntSetting, StringSetting
<1> QED
  BY <1>1, <1>4, <1>5, <1>6

LEMMA AsItStandsIsValue == \A value \in Value : AsItStands(value) \in Value
<1> SUFFICES ASSUME NEW value \in Value PROVE AsItStands(value) \in Value
  OBVIOUS
<1>1. PICK v \in [raw: Text, text: Text, number: Int] : v = value
  BY DEF Value
<1>2. PICK n \in Int : n = IF v.raw = v.text THEN v.number ELSE 0
  OBVIOUS
<1>3. AsItStands(value) = [v EXCEPT !.text = v.raw, !.number = n]
  BY <1>1, <1>2 DEF AsItStands
<1>4. v.raw \in Text
  OBVIOUS
<1>5. [v EXCEPT !.text = v.raw, !.number = n] \in [raw: Text, text: Text, number: Int]
  BY <1>4
<1> QED
  BY <1>3, <1>5 DEF Value

LEMMA AssignedItems == ASSUME NEW source \in Source PROVE Assigned(source) \in Seq(Item)
<1>1. CASE source.from = "file"
  <2>1. source.says \in Seq(Piece)
    BY <1>1, ConfigAssumption DEF Source
  <2>2. PICK A : A = Piece
    OBVIOUS
  <2>3. PICK B : B = Item
    OBVIOUS
  <2>4. A \subseteq B /\ source.says \in Seq(A)
    BY <2>1, <2>2, <2>3 DEF Item
  <2>5. source.says \in Seq(B)
    BY ONLY <2>4
  <2> QED
    BY <1>1, <2>3, <2>5 DEF Assigned
<1>2. CASE source.from # "file"
  <2>1. source.says \in Environment
    BY <1>2 DEF Source
  <2>2. \A i \in 1 .. 8 : Assigned(source)[i] \in Item
    <3> SUFFICES ASSUME NEW i \in 1 .. 8 PROVE Assigned(source)[i] \in Item
      OBVIOUS
    <3>1. PICK s \in Setting : s = EnvironmentOrder[i]
      BY Order
    <3>2. Assigned(source)[i] =
            IF s \in DOMAIN source.says
            THEN [key |-> s, value |-> AsItStands(source.says[s]), rest |-> FALSE]
            ELSE Nothing
      BY <1>2, <3>1, Order DEF Assigned
    <3>3. s \in DOMAIN source.says => AsItStands(source.says[s]) \in Value
      BY <2>1, ConfigAssumption, AsItStandsIsValue
    <3> QED
      BY <3>2, <3>3 DEF Item, Piece
  <2>3. Assigned(source) = [i \in 1 .. 8 |-> Assigned(source)[i]]
    BY <1>2, Order DEF Assigned
  <2>4. PICK t : t = Assigned(source)
    OBVIOUS
  <2>5. t = [i \in 1 .. 8 |-> t[i]] /\ \A i \in 1 .. 8 : t[i] \in Item
    BY <2>2, <2>3, <2>4
  <2>6. t \in Seq(Item)
    BY ONLY <2>5
  <2> QED
    BY <2>4, <2>6
<1> QED
  BY <1>1, <1>2

-----------------------------------------------------------------------------
(* Types, and what is still to be assigned.                                *)

\* What is still to do is the end of what the last source assigns.
HistoryInv ==
  /\ calls \in Seq(Source) /\ Len(calls) <= MaxCalls
  /\ todo \in Seq(Item)
  /\ pc \in {"none", "idle", "loading"}
  /\ pc = "none" => calls = <<>>
  /\ pc # "loading" => todo = <<>>
  /\ pc = "loading" =>
       /\ calls # <<>>
       /\ LET all == Assigned(calls[Len(calls)])
          IN /\ Len(todo) <= Len(all)
             /\ \A n \in 1 .. Len(todo) : todo[n] = all[Len(all) - Len(todo) + n]

TypeInv ==
  /\ config \in [IntSetting -> Int]
  /\ strings \in [StringSetting -> [block: Block \cup {0}, text: Text]]

LEMMA LoadForms ==
  /\ \A file \in File : config_load_from_file(file) =>
       \E source \in Source : Load(source, Assigned(source))
  /\ \A env \in Environment : config_load_from_env(env) =>
       \E source \in Source : Load(source, Assigned(source))
<1>1. ASSUME NEW file \in File, config_load_from_file(file)
      PROVE  \E source \in Source : Load(source, Assigned(source))
  <2>1. PICK source \in Source : source = [from |-> "file", says |-> file]
    BY DEF Source
  <2>2. Assigned(source) = file
    BY <2>1 DEF Assigned
  <2> QED
    BY <1>1, <2>1, <2>2 DEF config_load_from_file
<1>2. ASSUME NEW env \in Environment, config_load_from_env(env)
      PROVE  \E source \in Source : Load(source, Assigned(source))
  <2>1. PICK source \in Source : source = [from |-> "env", says |-> env]
    BY DEF Source
  <2>2. Assigned(source) =
          [i \in 1 .. Len(EnvironmentOrder) |->
             LET s == EnvironmentOrder[i]
             IN IF s \in DOMAIN env
                THEN [key |-> s, value |-> AsItStands(env[s]), rest |-> FALSE]
                ELSE Nothing]
    BY <2>1 DEF Assigned
  <2> QED
    BY <1>2, <2>1, <2>2 DEF config_load_from_env
<1> QED
  BY <1>1, <1>2

LEMMA LoadHistory ==
  ASSUME HistoryInv, NEW source \in Source, Load(source, Assigned(source))
  PROVE  HistoryInv' /\ todo = <<>>
<1>1. /\ pc = "idle" /\ pc' = "loading" /\ todo' = Assigned(source)
      /\ calls' = Append(calls, source) /\ Len(calls) < MaxCalls
  BY DEF Load
<1>2. PICK m \in Nat : Len(calls) = m
  BY LenProperties DEF HistoryInv
<1>3. /\ calls' \in Seq(Source) /\ Len(calls') = m + 1 /\ calls'[m + 1] = source
  BY <1>1, <1>2, AppendProperties DEF HistoryInv
<1>4. Len(calls') <= MaxCalls /\ calls' # <<>>
  <2>1. MaxCalls \in Nat
    BY ConfigAssumption
  <2>2. m + 1 <= MaxCalls /\ m + 1 # 0
    BY <1>1, <1>2, <2>1
  <2> QED
    BY <1>3, <2>2
<1>5. todo' \in Seq(Item)
  BY <1>1, AssignedItems
<1>6. PICK all : all = Assigned(source)
  OBVIOUS
<1>7. PICK k \in Nat : Len(all) = k
  BY <1>1, <1>5, <1>6, LenProperties
<1>8. k - k = 0 /\ \A n \in 1 .. k : (k - k) + n = n
  BY <1>7
<1>9. /\ Len(todo') <= Len(all)
      /\ \A n \in 1 .. Len(todo') : todo'[n] = all[Len(all) - Len(todo') + n]
  BY <1>1, <1>6, <1>7, <1>8
<1> QED
  BY <1>1, <1>3, <1>4, <1>5, <1>6, <1>9 DEF HistoryInv

\* The m-th call is in progress; of the len things it assigns, left are left.
Loading(m, len, left) ==
  /\ m = Len(calls) /\ calls[m] \in Source
  /\ len = Len(Assigned(calls[m])) /\ left = Len(todo) /\ left <= len
  /\ Head(todo) = Assigned(calls[m])[len - left + 1]
  /\ Head(todo) \in Item
  /\ Tail(todo) \in Seq(Item) /\ Len(Tail(todo)) = left - 1
  /\ \A n \in 1 .. left - 1 :
       Tail(todo)[n] = Assigned(calls[m])[len - (left - 1) + n]

LEMMA InProgress ==
  ASSUME HistoryInv, pc = "loading", todo # <<>>
  PROVE  \E m \in Nat \ {0}, len \in Nat, left \in Nat \ {0} : Loading(m, len, left)
<1>1. /\ calls \in Seq(Source) /\ calls # <<>> /\ todo \in Seq(Item)
      /\ Len(todo) <= Len(Assigned(calls[Len(calls)]))
      /\ \A n \in 1 .. Len(todo) :
           todo[n] = Assigned(calls[Len(calls)])[Len(Assigned(calls[Len(calls)])) - Len(todo) + n]
  BY DEF HistoryInv
<1>2. PICK m \in Nat \ {0} : m = Len(calls)
  <2>1. Len(calls) \in Nat /\ Len(calls) # 0
    BY <1>1, EmptySeq, LenProperties
  <2> QED
    BY <2>1
<1>3. calls[m] \in Source
  BY <1>1, <1>2
<1>4. PICK all \in Seq(Item) : all = Assigned(calls[m])
  BY <1>3, AssignedItems
<1>5. PICK len \in Nat : len = Len(all)
  BY LenProperties
<1>6. PICK left \in Nat \ {0} : left = Len(todo)
  <2>1. Len(todo) \in Nat /\ Len(todo) # 0
    BY <1>1, EmptySeq, LenProperties
  <2> QED
    BY <2>1
<1>7. left <= len /\ \A n \in 1 .. left : todo[n] = all[len - left + n]
  BY <1>1, <1>2, <1>4, <1>5, <1>6
<1>8. /\ Head(todo) = todo[1] /\ Head(todo) \in Item
      /\ Tail(todo) \in Seq(Item) /\ Len(Tail(todo)) = left - 1
      /\ \A n \in 1 .. left - 1 : Tail(todo)[n] = todo[n + 1]
  BY <1>1, <1>6, HeadTailProperties
<1>9. Head(todo) = all[len - left + 1]
  BY <1>7, <1>8
<1>10. \A n \in 1 .. left - 1 : Tail(todo)[n] = all[len - (left - 1) + n]
  <2> SUFFICES ASSUME NEW n \in 1 .. left - 1
               PROVE  Tail(todo)[n] = all[len - (left - 1) + n]
    OBVIOUS
  <2>1. PICK k \in 1 .. left : k = n + 1
    OBVIOUS
  <2>2. len - left + k = len - (left - 1) + n
    BY <2>1
  <2>3. todo[k] = all[len - left + k]
    BY <1>7
  <2> QED
    BY <1>8, <2>1, <2>2, <2>3
<1>11. Loading(m, len, left)
  BY ONLY <1>2, <1>3, <1>4, <1>5, <1>6, <1>7, <1>8, <1>9, <1>10 DEF Loading
<1> QED
  BY ONLY <1>11, m \in Nat \ {0}, len \in Nat, left \in Nat \ {0}

LEMMA StepHistory == ASSUME HistoryInv, Step PROVE HistoryInv'
<1>1. pc = "loading" /\ calls' = calls
  BY DEF Step
<1>2. CASE todo # <<>> /\ todo' = Tail(todo) /\ pc' = pc
  <2>1. PICK m \in Nat \ {0}, len \in Nat, left \in Nat \ {0} : Loading(m, len, left)
    BY <1>1, <1>2, InProgress
  <2>2. left - 1 <= len
    BY <2>1 DEF Loading
  <2> QED
    BY <1>1, <1>2, <2>1, <2>2 DEF HistoryInv, Loading
<1>3. CASE todo = <<>> /\ pc' = "idle" /\ todo' = todo
  BY <1>1, <1>3 DEF HistoryInv
<1> QED
  BY <1>2, <1>3 DEF Step

LEMMA TwoBlocks == Block = {1, 2}
<1>1. Cardinality({"host"} \cup {"log_file"}) = 2
  <2>1. IsFiniteSet({"host"}) /\ Cardinality({"host"}) = 1
    BY FS_Singleton
  <2>2. "log_file" \notin {"host"}
    OBVIOUS
  <2>3. Cardinality({"host"} \cup {"log_file"}) = Cardinality({"host"}) + 1
    BY <2>1, <2>2, FS_AddElement
  <2> QED
    BY <2>1, <2>3
<1>2. StringSetting = {"host"} \cup {"log_file"}
  BY DEF StringSetting
<1>3. 1 .. 2 = {1, 2}
  OBVIOUS
<1> QED
  BY <1>1, <1>2, <1>3 DEF Block

\* A copy while one other block is in use, or none, is in one of the two blocks.
LEMMA CopyType ==
  ASSUME NEW text \in Text, NEW b, NEW used \in SUBSET {b}, NEW copy \in strdup(text, used)
  PROVE  /\ copy \in [block: Block \cup {0}, text: Text]
         /\ copy.text = text \/ (copy = NULL /\ AllocMayFail)
<1>1. IsFiniteSet({b}) /\ Cardinality({b}) = 1
  BY FS_Singleton
<1>2. IsFiniteSet(used) /\ Cardinality(used) <= 1 /\ Cardinality(used) \in Nat
  BY <1>1, FS_Subset, FS_CardinalityType
<1>3. PICK new \in Block :
        new = CHOOSE c \in 1 .. Cardinality(used) + 1 : c \notin used
  <2>1. (CHOOSE c \in 1 .. Cardinality(used) + 1 : c \notin used) \in 1 .. Cardinality(used) + 1
    BY <1>2, FreeBlock
  <2>2. 1 .. Cardinality(used) + 1 \subseteq {1, 2}
    BY <1>2
  <2> QED
    BY <2>1, <2>2, TwoBlocks
<1>4. copy = [block |-> new, text |-> text] \/ (copy = NULL /\ AllocMayFail)
  <2>1. strdup(text, used) =
          {[block |-> CHOOSE c \in 1 .. Cardinality(used) + 1 : c \notin used,
            text |-> text]} \cup {p \in {NULL} : AllocMayFail}
    BY DEF strdup
  <2> QED
    BY <1>3, <2>1, Zenon
<1>5. NULL \in [block: Block \cup {0}, text: Text]
  BY ConfigAssumption DEF NULL
<1>6. [block |-> new, text |-> text] \in [block: Block \cup {0}, text: Text]
  OBVIOUS
<1>7. [block |-> new, text |-> text].text = text
  OBVIOUS
<1> QED
  BY <1>4, <1>5, <1>6, <1>7, Zenon

-----------------------------------------------------------------------------
(* Who decides a setting.                                                  *)

\* How much of what the i-th source assigns is assigned, if of the last one left
\* are left.
Done(cs, left, i) == Len(Assigned(cs[i])) - (IF i = Len(cs) THEN left ELSE 0)

\* The n-th of these has named s.
At(cs, left, i, n, s) ==
  i \in 1 .. Len(cs) /\ n \in 1 .. Done(cs, left, i) /\ Assigned(cs[i])[n].key = s

Unset(cs, left, s) ==
  \A i \in 1 .. Len(cs) : \A n \in 1 .. Done(cs, left, i) : ~At(cs, left, i, n, s)

Latest(cs, left, i, n, s) ==
  /\ At(cs, left, i, n, s)
  /\ \A j \in 1 .. Len(cs) : \A k \in 1 .. Done(cs, left, j) :
       At(cs, left, j, k, s) => j < i \/ (j = i /\ k <= n)

\* c is what the latest of them says of s, or its default.
IntDecided(cs, left, c, s) ==
  /\ Unset(cs, left, s) => c = DefaultInt[s]
  /\ \A i \in 1 .. Len(cs) : \A n \in 1 .. Done(cs, left, i) :
       Latest(cs, left, i, n, s) => c = Assigned(cs[i])[n].value.number

TextDecided(cs, left, string, s) ==
  /\ Unset(cs, left, s) => string.text = DefaultText[s]
  /\ \A i \in 1 .. Len(cs) : \A n \in 1 .. Done(cs, left, i) :
       Latest(cs, left, i, n, s) =>
         \/ string.text = Assigned(cs[i])[n].value.text
         \/ string = NULL /\ AllocMayFail

ValuesInv ==
  pc # "none" =>
    /\ \A s \in IntSetting : IntDecided(calls, Len(todo), config[s], s)
    /\ \A s \in StringSetting : TextDecided(calls, Len(todo), strings[s], s)

FullInv == Inv /\ HistoryInv /\ TypeInv /\ ValuesInv

\* The same assignments have named s in ds as in cs.
SameAt(cs, left, ds, more, s) ==
  /\ \A i, n : At(ds, more, i, n, s) <=> At(cs, left, i, n, s)
  /\ \A i, n : At(cs, left, i, n, s) => Assigned(ds[i])[n] = Assigned(cs[i])[n]

LEMMA SameDecided ==
  ASSUME NEW cs, NEW left, NEW ds, NEW more, NEW s, SameAt(cs, left, ds, more, s)
  PROVE  /\ \A c : IntDecided(cs, left, c, s) => IntDecided(ds, more, c, s)
         /\ \A string : TextDecided(cs, left, string, s) => TextDecided(ds, more, string, s)
<1>0. /\ \A i, n : At(ds, more, i, n, s) <=> At(cs, left, i, n, s)
      /\ \A i, n : At(cs, left, i, n, s) => Assigned(ds[i])[n] = Assigned(cs[i])[n]
  BY DEF SameAt
<1>1. Unset(ds, more, s) => Unset(cs, left, s)
  <2>1. Unset(ds, more, s) => \A i, n : ~At(ds, more, i, n, s)
    BY DEF Unset, At
  <2> QED
    BY <1>0, <2>1 DEF Unset
<1>2. ASSUME NEW i, NEW n, Latest(ds, more, i, n, s)
      PROVE  /\ Latest(cs, left, i, n, s) /\ Assigned(ds[i])[n] = Assigned(cs[i])[n]
             /\ i \in 1 .. Len(cs) /\ n \in 1 .. Done(cs, left, i)
  <2>1. \A j, k : At(ds, more, j, k, s) => j < i \/ (j = i /\ k <= n)
    BY <1>0, <1>2 DEF Latest, At
  <2>2. At(cs, left, i, n, s)
    BY <1>0, <1>2 DEF Latest
  <2>3. i \in 1 .. Len(cs) /\ n \in 1 .. Done(cs, left, i)
    BY <2>2 DEF At
  <2> QED
    BY <1>0, <2>1, <2>2, <2>3 DEF Latest
<1> QED
  BY <1>1, <1>2 DEF IntDecided, TextDecided

\* If the n-th assignment of the m-th source is the last of all to name s, it
\* decides.
LEMMA NewDecided ==
  ASSUME NEW cs, NEW left, NEW m, NEW n, NEW s, At(cs, left, m, n, s),
         \A i, k : At(cs, left, i, k, s) => i < m \/ (i = m /\ k <= n)
  PROVE  /\ IntDecided(cs, left, Assigned(cs[m])[n].value.number, s)
         /\ \A string :
              \/ string.text = Assigned(cs[m])[n].value.text
              \/ string = NULL /\ AllocMayFail
              => TextDecided(cs, left, string, s)
<1>1. ~Unset(cs, left, s)
  BY DEF Unset, At
<1>2. ASSUME NEW i, NEW k, Latest(cs, left, i, k, s) PROVE i = m /\ k = n
  <2>1. At(cs, left, i, k, s)
    BY <1>2 DEF Latest
  <2>2. i \in Int /\ k \in Int /\ m \in Int /\ n \in Int
    BY <2>1 DEF At
  <2>3. i < m \/ (i = m /\ k <= n)
    BY <2>1
  <2>4. m < i \/ (m = i /\ n <= k)
    BY <1>2 DEF Latest, At
  <2> QED
    BY <2>2, <2>3, <2>4
<1>3. IntDecided(cs, left, Assigned(cs[m])[n].value.number, s)
  BY <1>1, <1>2 DEF IntDecided
<1>4. ASSUME NEW string,
             \/ string.text = Assigned(cs[m])[n].value.text
             \/ string = NULL /\ AllocMayFail
      PROVE  TextDecided(cs, left, string, s)
  BY <1>1, <1>2, <1>4 DEF TextDecided
<1> QED
  BY <1>3, <1>4

\* ds is cs with source, of which more things are to be assigned.
Extended(cs, source, ds, more) == ds = Append(cs, source) /\ more = Len(Assigned(source))

LEMMA AtLoad ==
  ASSUME NEW cs \in Seq(Source), NEW source \in Source, NEW s,
         NEW ds, NEW more, Extended(cs, source, ds, more)
  PROVE  SameAt(cs, 0, ds, more, s)
<1>1. PICK m \in Nat : m = Len(cs)
  BY LenProperties
<1>2. Len(ds) = m + 1 /\ ds[m + 1] = source /\ \A i \in 1 .. m : ds[i] = cs[i]
  BY <1>1, AppendProperties DEF Extended
<1>3. more \in Nat /\ more = Len(Assigned(source))
  BY AssignedItems, LenProperties DEF Extended
<1>4. Done(ds, more, m + 1) = 0
  BY <1>2, <1>3 DEF Done
<1>5. \A i \in 1 .. m : Done(ds, more, i) = Done(cs, 0, i)
  <2> SUFFICES ASSUME NEW i \in 1 .. m PROVE Done(ds, more, i) = Done(cs, 0, i)
    OBVIOUS
  <2>1. i # m + 1 /\ ds[i] = cs[i]
    BY <1>2
  <2>2. Len(Assigned(cs[i])) \in Nat
    <3>1. cs[i] \in Source
      BY <1>1
    <3> QED
      BY <3>1, AssignedItems, LenProperties
  <2>3. Done(ds, more, i) = Len(Assigned(cs[i])) - 0
    BY <1>2, <2>1 DEF Done
  <2>4. Done(cs, 0, i) = Len(Assigned(cs[i])) - 0
    BY <1>1 DEF Done
  <2> QED
    BY <2>3, <2>4
<1>6. ASSUME NEW i, NEW n PROVE At(ds, more, i, n, s) <=> At(cs, 0, i, n, s)
  <2>1. CASE i \in 1 .. m
    <3>1. i \in 1 .. m + 1
      BY <2>1
    <3>2. ds[i] = cs[i] /\ Done(ds, more, i) = Done(cs, 0, i)
      BY <1>2, <1>5, <2>1
    <3> QED
      BY <1>1, <1>2, <2>1, <3>1, <3>2 DEF At
  <2>2. CASE i = m + 1
    BY <1>1, <1>2, <1>4, <2>2 DEF At
  <2>3. CASE i \notin 1 .. m + 1
    BY <1>1, <1>2, <2>3 DEF At
  <2> QED
    BY <2>1, <2>2, <2>3
<1>7. ASSUME NEW i, NEW n, At(cs, 0, i, n, s) PROVE Assigned(ds[i])[n] = Assigned(cs[i])[n]
  BY <1>1, <1>2, <1>7 DEF At
<1> QED
  BY <1>6, <1>7 DEF SameAt

LEMMA AtStep ==
  ASSUME NEW m \in Nat \ {0}, NEW len \in Nat, NEW left \in Nat \ {0}, Loading(m, len, left),
         calls \in Seq(Source), NEW s
  PROVE  /\ \A i, n : At(calls, left - 1, i, n, s) <=>
                      \/ At(calls, left, i, n, s)
                      \/ i = m /\ n = len - left + 1 /\ Head(todo).key = s
         /\ \A i, n : At(calls, left, i, n, s) => i < m \/ (i = m /\ n <= len - left + 1)
<1>1. /\ m = Len(calls) /\ len = Len(Assigned(calls[m])) /\ left <= len
      /\ Head(todo) = Assigned(calls[m])[len - left + 1]
  BY DEF Loading
<1>2. Done(calls, left, m) = len - left /\ Done(calls, left - 1, m) = len - left + 1
  <2>1. Done(calls, left, m) = len - left /\ Done(calls, left - 1, m) = len - (left - 1)
    BY <1>1 DEF Done
  <2>2. len - (left - 1) = len - left + 1
    OBVIOUS
  <2> QED
    BY <2>1, <2>2
<1>3. \A i : i # m => Done(calls, left, i) = Done(calls, left - 1, i)
  BY <1>1 DEF Done
<1>4. PICK d \in Nat \ {0} : d = len - left + 1 /\ d - 1 = len - left
  <2>1. left <= len
    BY <1>1
  <2>2. len - left + 1 \in Nat \ {0} /\ (len - left + 1) - 1 = len - left
    BY ONLY <2>1, len \in Nat, left \in Nat
  <2> QED
    BY ONLY <2>2
<1>5. ASSUME NEW i, NEW n
      PROVE  At(calls, left - 1, i, n, s) <=>
               \/ At(calls, left, i, n, s)
               \/ i = m /\ n = d /\ Head(todo).key = s
  <2>1. CASE i # m
    BY <1>3, <2>1 DEF At
  <2>2. CASE i = m
    <3>1. 1 .. d = (1 .. d - 1) \cup {d} /\ m \in 1 .. m
      OBVIOUS
    <3>2. /\ At(calls, left - 1, m, n, s) <=> n \in 1 .. d /\ Assigned(calls[m])[n].key = s
          /\ At(calls, left, m, n, s) <=> n \in 1 .. d - 1 /\ Assigned(calls[m])[n].key = s
      BY <1>1, <1>2, <1>4, <3>1 DEF At
    <3> QED
      BY <1>1, <1>4, <2>2, <3>1, <3>2
  <2> QED
    BY <2>1, <2>2
<1>6. ASSUME NEW i, NEW n, At(calls, left, i, n, s) PROVE i < m \/ (i = m /\ n <= d)
  <2>1. i \in 1 .. m /\ n \in 1 .. Done(calls, left, i)
    BY <1>1, <1>6 DEF At
  <2>2. CASE i = m
    BY <1>2, <1>4, <2>1, <2>2
  <2> QED
    BY <2>1, <2>2
<1> QED
  BY <1>4, <1>5, <1>6

-----------------------------------------------------------------------------
(* The full invariant.                                                     *)

LEMMA NothingDecided ==
  /\ \A s : IntDecided(<<>>, 0, DefaultInt[s], s)
  /\ \A s, string : string.text = DefaultText[s] => TextDecided(<<>>, 0, string, s)
<1>1. Len(<<>>) = 0 /\ 1 .. 0 = {}
  OBVIOUS
<1> QED
  BY <1>1 DEF IntDecided, TextDecided

LEMMA InitFull == Init => FullInv
<1> SUFFICES ASSUME Init PROVE FullInv
  OBVIOUS
<1>1. HistoryInv
  <2>1. /\ calls = <<>> /\ todo = <<>> /\ pc = "none"
        /\ calls \in Seq(Source) /\ todo \in Seq(Item)
    BY DEF Init
  <2>2. Len(calls) <= MaxCalls
    <3>1. MaxCalls \in Nat /\ Len(calls) = 0
      BY <2>1, ConfigAssumption
    <3> QED
      BY ONLY <3>1
  <2> QED
    BY ONLY <2>1, <2>2 DEF HistoryInv
<1>2. TypeInv
  <2>1. DefaultInt \in [IntSetting -> Int]
    BY DEF DefaultInt, IntSetting
  <2>2. NULL \in [block: Block \cup {0}, text: Text]
    BY ConfigAssumption DEF NULL
  <2> QED
    BY <2>1, <2>2 DEF Init, TypeInv
<1>3. ValuesInv
  BY DEF Init, ValuesInv
<1> QED
  BY <1>1, <1>2, <1>3, InitInv DEF FullInv

LEMMA NewFull ==
  ASSUME FullInv, config_new
  PROVE  HistoryInv' /\ TypeInv' /\ ValuesInv'
<1>1. /\ pc = "none" /\ UNCHANGED <<todo, calls>> /\ config' = DefaultInt
      /\ calls = <<>> /\ todo = <<>>
  BY DEF config_new, FullInv, HistoryInv
<1>2. PICK host \in strdup(DefaultText.host, {}) :
        \E log_file \in strdup(DefaultText.log_file, {host.block}) :
          \/ /\ NULL \notin {host, log_file}
             /\ strings' = [host |-> host, log_file |-> log_file]
             /\ pc' = "idle"
          \/ UNCHANGED <<strings, heap, pc>>
  BY DEF config_new
<1>3. PICK log_file \in strdup(DefaultText.log_file, {host.block}) :
        \/ /\ NULL \notin {host, log_file}
           /\ strings' = [host |-> host, log_file |-> log_file]
           /\ pc' = "idle"
        \/ UNCHANGED <<strings, heap, pc>>
  BY <1>2
<1>4. DefaultInt \in [IntSetting -> Int]
  BY DEF DefaultInt, IntSetting
<1>5. CASE UNCHANGED <<strings, heap, pc>>
  BY <1>1, <1>4, <1>5 DEF FullInv, HistoryInv, TypeInv, ValuesInv
<1>6. CASE /\ NULL \notin {host, log_file}
           /\ strings' = [host |-> host, log_file |-> log_file]
           /\ pc' = "idle"
  <2>1. DefaultText.host \in Text /\ DefaultText.log_file \in Text
    BY ConfigAssumption DEF DefaultText
  <2>2. /\ host \in [block: Block \cup {0}, text: Text]
        /\ host.text = DefaultText.host \/ (host = NULL /\ AllocMayFail)
    <3>1. {} \in SUBSET {0}
      OBVIOUS
    <3> QED
      BY <2>1, <3>1, CopyType
  <2>3. /\ log_file \in [block: Block \cup {0}, text: Text]
        /\ log_file.text = DefaultText.log_file \/ (log_file = NULL /\ AllocMayFail)
    <3>1. {host.block} \in SUBSET {host.block}
      OBVIOUS
    <3> QED
      BY <2>1, <3>1, CopyType
  <2>4. HistoryInv'
    BY <1>1, <1>6 DEF FullInv, HistoryInv
  <2>5. TypeInv'
    BY <1>1, <1>4, <1>6, <2>2, <2>3 DEF TypeInv, StringSetting
  <2>6. \A s \in StringSetting : strings'[s].text = DefaultText[s]
    BY <1>6, <2>2, <2>3 DEF StringSetting, DefaultText
  <2>7. calls' = <<>> /\ Len(todo') = 0
    BY <1>1
  <2>8. ValuesInv'
    BY <1>1, <2>6, <2>7, NothingDecided DEF ValuesInv
  <2> QED
    BY <2>4, <2>5, <2>8
<1> QED
  BY <1>3, <1>5, <1>6

LEMMA LoadFull ==
  ASSUME FullInv, NEW source \in Source, Load(source, Assigned(source))
  PROVE  HistoryInv' /\ TypeInv' /\ ValuesInv'
<1>1. HistoryInv' /\ todo = <<>>
  BY LoadHistory DEF FullInv
<1>2. /\ UNCHANGED <<config, strings>> /\ pc = "idle"
      /\ calls' = Append(calls, source) /\ todo' = Assigned(source)
      /\ calls \in Seq(Source) /\ Len(todo) = 0
  BY <1>1 DEF Load, FullInv, HistoryInv
<1>3. TypeInv'
  BY <1>2 DEF FullInv, TypeInv
<1>4. \A s : /\ \A c : IntDecided(calls, 0, c, s) => IntDecided(calls', Len(todo'), c, s)
             /\ \A string : TextDecided(calls, 0, string, s) =>
                              TextDecided(calls', Len(todo'), string, s)
  <2> SUFFICES ASSUME NEW s
               PROVE  /\ \A c : IntDecided(calls, 0, c, s) => IntDecided(calls', Len(todo'), c, s)
                      /\ \A string : TextDecided(calls, 0, string, s) =>
                                       TextDecided(calls', Len(todo'), string, s)
    OBVIOUS
  <2>1. PICK ds : ds = calls'
    OBVIOUS
  <2>2. PICK more : more = Len(todo')
    OBVIOUS
  <2>3. PICK cs \in Seq(Source) : cs = calls
    BY <1>2
  <2>4. Extended(cs, source, ds, more)
    BY <1>2, <2>1, <2>2, <2>3 DEF Extended
  <2>5. SameAt(cs, 0, ds, more, s)
    BY ONLY <2>4, cs \in Seq(Source), source \in Source, AtLoad
  <2>6. /\ \A c : IntDecided(cs, 0, c, s) => IntDecided(ds, more, c, s)
        /\ \A string : TextDecided(cs, 0, string, s) => TextDecided(ds, more, string, s)
    BY ONLY <2>5, SameDecided
  <2> QED
    BY <2>1, <2>2, <2>3, <2>6
<1>5. ValuesInv'
  BY <1>2, <1>4 DEF FullInv, ValuesInv
<1> QED
  BY <1>1, <1>3, <1>5

\* What Assign does to the integers and the strings.
LEMMA Assigns ==
  ASSUME Inv, TypeInv, NEW piece \in Item, Assign(piece)
  PROVE  /\ TypeInv'
         /\ \A s \in IntSetting :
              config'[s] = IF piece.key = s THEN piece.value.number ELSE config[s]
         /\ \A s \in StringSetting :
              IF piece.key = s
              THEN \/ strings'[s].text = piece.value.text
                   \/ strings'[s] = NULL /\ AllocMayFail
              ELSE strings'[s] = strings[s]
<1>1. piece.key \in Setting => piece.value.number \in Int /\ piece.value.text \in Text
  BY DEF Item, Piece, Value, Nothing, Setting, IntSetting, StringSetting
<1>2. CASE piece.key \in IntSetting
  <2>1. /\ config' = [config EXCEPT ![piece.key] = piece.value.number]
        /\ UNCHANGED <<strings, heap>>
    BY <1>2 DEF Assign, Setting, IntSetting, StringSetting
  <2>2. piece.key \notin StringSetting
    BY <1>2 DEF IntSetting, StringSetting
  <2>3. piece.value.number \in Int
    BY <1>1, <1>2 DEF Setting
  <2> QED
    BY <1>2, <2>1, <2>2, <2>3 DEF TypeInv
<1>3. CASE piece.key \in StringSetting
  <2> DEFINE left == heap \ {strings[piece.key].block}
  <2>1. UNCHANGED config /\ piece.key \notin IntSetting
    BY <1>3 DEF Assign, Setting, IntSetting, StringSetting
  <2>2. PICK copy \in strdup(piece.value.text, left) : strings' = [strings EXCEPT ![piece.key] = copy]
    BY <1>3 DEF Assign, Setting, IntSetting, StringSetting
  <2>3. PICK b : left \in SUBSET {b}
    <3>1. heap \subseteq {strings.host.block, strings.log_file.block}
      BY DEF Inv, StringsInv
    <3>2. piece.key = "host" \/ piece.key = "log_file"
      BY <1>3 DEF StringSetting
    <3>3. CASE piece.key = "host"
      <4>1. left \in SUBSET {strings.log_file.block}
        BY <3>1, <3>3
      <4> QED
        BY <4>1
    <3>4. CASE piece.key = "log_file"
      <4>1. left \in SUBSET {strings.host.block}
        BY <3>1, <3>4
      <4> QED
        BY <4>1
    <3> QED
      BY <3>2, <3>3, <3>4
  <2>4. PICK text \in Text : text = piece.value.text
    BY <1>1, <1>3 DEF Setting
  <2> HIDE DEF left
  <2>5. /\ copy \in [block: Block \cup {0}, text: Text]
        /\ copy.text = piece.value.text \/ (copy = NULL /\ AllocMayFail)
    <3>1. copy \in strdup(text, left)
      BY <2>2, <2>4
    <3>2. /\ copy \in [block: Block \cup {0}, text: Text]
          /\ copy.text = text \/ (copy = NULL /\ AllocMayFail)
      BY ONLY <2>3, <3>1, text \in Text, CopyType
    <3> QED
      BY <2>4, <3>2
  <2>6. \A s \in StringSetting : strings'[s] = IF piece.key = s THEN copy ELSE strings[s]
    BY <2>2 DEF TypeInv
  <2>7. TypeInv'
    BY <1>3, <2>1, <2>2, <2>5 DEF TypeInv
  <2> QED
    BY <2>1, <2>5, <2>6, <2>7
<1>4. CASE piece.key \notin Setting
  BY <1>4 DEF Assign, Setting, TypeInv
<1> QED
  BY <1>2, <1>3, <1>4 DEF Setting

\* The head of what is to do becomes the latest to name its setting.
LEMMA AssignFull ==
  ASSUME FullInv, pc = "loading", pc' = pc, calls' = calls, todo # <<>>, todo' = Tail(todo),
         Assign(Head(todo))
  PROVE  TypeInv' /\ ValuesInv'
<1>1. HistoryInv /\ Inv /\ TypeInv /\ ValuesInv /\ calls \in Seq(Source)
  BY DEF FullInv, HistoryInv
<1>2. PICK m \in Nat \ {0}, len \in Nat, left \in Nat \ {0} : Loading(m, len, left)
  BY <1>1, InProgress
<1>3. PICK piece \in Item : piece = Head(todo)
  BY <1>2 DEF Loading
<1>4. /\ TypeInv'
      /\ \A s \in IntSetting :
           config'[s] = IF piece.key = s THEN piece.value.number ELSE config[s]
      /\ \A s \in StringSetting :
           IF piece.key = s
           THEN \/ strings'[s].text = piece.value.text
                \/ strings'[s] = NULL /\ AllocMayFail
           ELSE strings'[s] = strings[s]
  BY <1>1, <1>3, Assigns
<1>5. PICK d \in Nat : d = len - left + 1
  <2>1. left <= len
    BY <1>2 DEF Loading
  <2>2. len - left + 1 \in Nat
    BY ONLY <2>1, len \in Nat, left \in Nat
  <2> QED
    BY ONLY <2>2
<1>6. left = Len(todo) /\ left - 1 = Len(todo') /\ piece = Assigned(calls[m])[d]
  BY <1>2, <1>3, <1>5 DEF Loading
<1>7. ASSUME NEW s
      PROVE  /\ \A i, n : At(calls, left - 1, i, n, s) <=>
                          \/ At(calls, left, i, n, s)
                          \/ i = m /\ n = d /\ piece.key = s
             /\ \A i, n : At(calls, left, i, n, s) => i < m \/ (i = m /\ n <= d)
  BY <1>1, <1>2, <1>3, <1>5, AtStep
<1>8. ASSUME NEW s, piece.key # s
      PROVE  /\ \A c : IntDecided(calls, left, c, s) => IntDecided(calls, left - 1, c, s)
             /\ \A string : TextDecided(calls, left, string, s) =>
                              TextDecided(calls, left - 1, string, s)
  <2>1. \A i, n : At(calls, left - 1, i, n, s) <=> At(calls, left, i, n, s)
    BY <1>7, <1>8
  <2>2. PICK cs : cs = calls
    OBVIOUS
  <2>3. \A i, n : At(cs, left - 1, i, n, s) <=> At(cs, left, i, n, s)
    BY <2>1, <2>2
  <2>4. \A i, n : At(cs, left, i, n, s) => Assigned(cs[i])[n] = Assigned(cs[i])[n]
    OBVIOUS
  <2>5. SameAt(cs, left, cs, left - 1, s)
    BY ONLY <2>3, <2>4 DEF SameAt
  <2>6. /\ \A c : IntDecided(cs, left, c, s) => IntDecided(cs, left - 1, c, s)
        /\ \A string : TextDecided(cs, left, string, s) => TextDecided(cs, left - 1, string, s)
    BY ONLY <2>5, SameDecided
  <2> QED
    BY <2>2, <2>6
<1>9. ASSUME NEW s, piece.key = s
      PROVE  /\ IntDecided(calls, left - 1, piece.value.number, s)
             /\ \A string :
                  \/ string.text = piece.value.text
                  \/ string = NULL /\ AllocMayFail
                  => TextDecided(calls, left - 1, string, s)
  <2>1. PICK cs : cs = calls
    OBVIOUS
  <2>2. At(cs, left - 1, m, d, s)
    BY <1>7, <1>9, <2>1
  <2>3. \A i, k : At(cs, left - 1, i, k, s) => i < m \/ (i = m /\ k <= d)
    <3>1. /\ \A i, n : At(cs, left - 1, i, n, s) <=>
                      \/ At(cs, left, i, n, s)
                      \/ i = m /\ n = d /\ piece.key = s
          /\ \A i, n : At(cs, left, i, n, s) => i < m \/ (i = m /\ n <= d)
      BY <1>7, <2>1
    <3>2. d <= d
      BY ONLY d \in Nat
    <3> QED
      BY ONLY <3>1, <3>2
  <2>4. piece = Assigned(cs[m])[d]
    BY <1>6, <2>1
  <2>5. /\ IntDecided(cs, left - 1, Assigned(cs[m])[d].value.number, s)
        /\ \A string :
             \/ string.text = Assigned(cs[m])[d].value.text
             \/ string = NULL /\ AllocMayFail
             => TextDecided(cs, left - 1, string, s)
    BY ONLY <2>2, <2>3, NewDecided
  <2> QED
    BY <2>1, <2>4, <2>5
<1>10. /\ \A s \in IntSetting : IntDecided(calls, left, config[s], s)
       /\ \A s \in StringSetting : TextDecided(calls, left, strings[s], s)
  BY <1>1, <1>6 DEF ValuesInv
<1>11. ASSUME NEW s \in IntSetting PROVE IntDecided(calls, left - 1, config'[s], s)
  <2>1. CASE piece.key = s
    BY <1>4, <1>9, <2>1
  <2>2. CASE piece.key # s
    BY <1>4, <1>8, <1>10, <2>2
  <2> QED
    BY <2>1, <2>2
<1>12. ASSUME NEW s \in StringSetting PROVE TextDecided(calls, left - 1, strings'[s], s)
  <2>1. CASE piece.key = s
    BY <1>4, <1>9, <2>1
  <2>2. CASE piece.key # s
    BY <1>4, <1>8, <1>10, <2>2
  <2> QED
    BY <2>1, <2>2
<1>13. ValuesInv'
  BY <1>6, <1>11, <1>12 DEF ValuesInv
<1> QED
  BY <1>4, <1>13

LEMMA FreeFull ==
  ASSUME FullInv, config_free
  PROVE  HistoryInv' /\ TypeInv' /\ ValuesInv'
<1>1. /\ pc = "idle" /\ pc' = "none" /\ calls' = <<>> /\ UNCHANGED <<config, todo>>
      /\ strings' = [s \in StringSetting |-> NULL]
  BY DEF config_free
<1>2. HistoryInv'
  <2>1. calls' = <<>> /\ calls' \in Seq(Source)
    BY ONLY <1>1
  <2>2. Len(calls') <= MaxCalls
    <3>1. MaxCalls \in Nat /\ Len(<<>>) = 0
      BY ConfigAssumption
    <3> QED
      BY ONLY <2>1, <3>1
  <2> QED
    BY <1>1, <2>1, <2>2 DEF FullInv, HistoryInv
<1>3. TypeInv'
  <2>1. NULL \in [block: Block \cup {0}, text: Text]
    BY ConfigAssumption DEF NULL
  <2> QED
    BY <1>1, <2>1 DEF FullInv, TypeInv
<1>4. ValuesInv'
  BY <1>1 DEF ValuesInv
<1> QED
  BY <1>2, <1>3, <1>4

LEMMA NextFull == FullInv /\ [Next]_vars => FullInv'
<1> SUFFICES ASSUME FullInv, [Next]_vars
             PROVE  HistoryInv' /\ TypeInv' /\ ValuesInv'
  BY NextInv DEF FullInv
<1>1. CASE config_new
  BY <1>1, NewFull
<1>2. CASE \E source \in Source : Load(source, Assigned(source))
  BY <1>2, LoadFull
<1>3. CASE Step
  <2>1. HistoryInv' /\ pc = "loading" /\ calls' = calls
    BY <1>3, StepHistory DEF FullInv, Step
  <2>2. CASE todo # <<>> /\ Assign(Head(todo)) /\ todo' = Tail(todo) /\ UNCHANGED pc
    BY <2>1, <2>2, AssignFull
  <2>3. CASE pc' = "idle" /\ UNCHANGED <<config, strings, heap, todo>>
    BY <2>1, <2>3 DEF FullInv, TypeInv, ValuesInv
  <2> QED
    BY <1>3, <2>1, <2>2, <2>3 DEF Step
<1>4. CASE config_free
  BY <1>4, FreeFull
<1>5. CASE UNCHANGED vars
  BY <1>5 DEF vars, FullInv, HistoryInv, TypeInv, ValuesInv
<1> QED
  BY <1>1, <1>2, <1>3, <1>4, <1>5, LoadForms DEF Next

LEMMA FullInvariance == Spec => []FullInv
BY InitFull, NextFull, PTL DEF Spec

-----------------------------------------------------------------------------
(* The theorems.                                                           *)

\* Every variable of a configuration keeps its type, and no more is allocated
\* than its two strings.
THEOREM TypeCorrect == Spec => []TypeOK
<1>1. ASSUME FullInv PROVE TypeOK
  <2>1. heap \subseteq Block
    <3>1. /\ strings.host \in [block: Block \cup {0}, text: Text]
          /\ strings.log_file \in [block: Block \cup {0}, text: Text]
      BY <1>1 DEF FullInv, TypeInv, StringSetting
    <3> QED
      BY <1>1, <3>1 DEF FullInv, Inv, StringsInv
  <2> QED
    BY <1>1, <2>1 DEF FullInv, TypeInv, HistoryInv, Item, TypeOK
<1> QED
  BY <1>1, FullInvariance, PTL

\* The place of a setting in its source, as a reader counts it, and among what
\* the source assigns.
Among(i, s, k, n) ==
  \/ calls[i].from = "file" /\ k = n
  \/ calls[i].from = "env" /\ k = 1

LEMMA GivenAt ==
  ASSUME FullInv, pc = "idle", LinesFit, NEW s \in Setting
  PROVE  /\ \A p \in Given(s) : \E n :
              /\ At(calls, 0, p[1], n, s) /\ Among(p[1], s, p[2], n)
              /\ Assigned(calls[p[1]])[n].value = ValueAt(p, s)
         /\ \A i, n : At(calls, 0, i, n, s) =>
              \E k : <<i, k>> \in Given(s) /\ Among(i, s, k, n)
<1>1. PICK m \in Nat : m = Len(calls)
  BY LenProperties DEF FullInv, HistoryInv
<1>2. \A i \in 1 .. m : calls[i] \in Source
  BY <1>1 DEF FullInv, HistoryInv
<1>3. \A i \in 1 .. m : Done(calls, 0, i) = Len(Assigned(calls[i]))
  <2> SUFFICES ASSUME NEW i \in 1 .. m PROVE Done(calls, 0, i) = Len(Assigned(calls[i]))
    OBVIOUS
  <2>1. Len(Assigned(calls[i])) \in Nat
    BY <1>2, AssignedItems, LenProperties
  <2> QED
    BY <2>1 DEF Done
<1>4. \A i, k : <<i, k>> \in Given(s) <=> i \in 1 .. m /\ k \in Places(calls[i], s)
  BY <1>1 DEF Given
<1>5. \A p \in Given(s) : p = <<p[1], p[2]>> /\ p[1] \in 1 .. m /\ p[2] \in Places(calls[p[1]], s)
  BY <1>1 DEF Given
<1>6. \A i, n : At(calls, 0, i, n, s) <=>
                 i \in 1 .. m /\ n \in 1 .. Len(Assigned(calls[i])) /\ Assigned(calls[i])[n].key = s
  BY <1>1, <1>3 DEF At
<1>7. ASSUME NEW i \in 1 .. m, calls[i].from = "file"
      PROVE  /\ Assigned(calls[i]) = calls[i].says
             /\ \A n : n \in Places(calls[i], s) <=> n \in 1 .. Len(calls[i].says) /\ calls[i].says[n].key = s
             /\ \A p : p[1] = i => ValueAt(p, s) = calls[i].says[p[2]].value
  <2>1. Assigned(calls[i]) = calls[i].says
    BY <1>7 DEF Assigned
  <2>2. \A n \in 1 .. Len(calls[i].says) : ~calls[i].says[n].rest
    BY <1>1, <1>7 DEF LinesFit
  <2>3. \A n : n \in Places(calls[i], s) <=> n \in 1 .. Len(calls[i].says) /\ calls[i].says[n].key = s
    BY <1>7, <2>2 DEF Places
  <2>4. \A p : p[1] = i => ValueAt(p, s) = calls[i].says[p[2]].value
    BY <1>7 DEF ValueAt
  <2> QED
    BY <2>1, <2>3, <2>4
<1>8. ASSUME NEW i \in 1 .. m, calls[i].from = "env"
      PROVE  /\ Len(Assigned(calls[i])) = 8
             /\ \A k : k \in Places(calls[i], s) <=> k = 1 /\ s \in DOMAIN calls[i].says
             /\ s \in DOMAIN calls[i].says => \E n \in 1 .. 8 : EnvironmentOrder[n] = s
             /\ \A n \in 1 .. 8 : Assigned(calls[i])[n].key = s =>
                  EnvironmentOrder[n] = s /\ s \in DOMAIN calls[i].says
             /\ \A n \in 1 .. 8 : EnvironmentOrder[n] = s /\ s \in DOMAIN calls[i].says =>
                  /\ Assigned(calls[i])[n].key = s
                  /\ \A p : p[1] = i => Assigned(calls[i])[n].value = ValueAt(p, s)
  <2> DEFINE env == calls[i].says
  <2>1. /\ env \in Environment
        /\ DOMAIN env \subseteq Setting \ {"keep_alive_timeout", "max_request_size"}
    BY <1>2, <1>8, ConfigAssumption DEF Source
  <2>2. Assigned(calls[i]) =
          [n \in 1 .. 8 |->
             IF EnvironmentOrder[n] \in DOMAIN env
             THEN [key |-> EnvironmentOrder[n],
                   value |-> AsItStands(env[EnvironmentOrder[n]]), rest |-> FALSE]
             ELSE Nothing]
    BY <1>8, Order DEF Assigned
  <2>3. Len(Assigned(calls[i])) = 8
    BY <2>2
  <2>4. \A k : k \in Places(calls[i], s) <=> k = 1 /\ s \in DOMAIN env
    BY <1>8 DEF Places
  <2>5. s \in DOMAIN env => \E n \in 1 .. 8 : EnvironmentOrder[n] = s
    BY <2>1, Order
  <2>6. \A p : p[1] = i => ValueAt(p, s) = AsItStands(env[s])
    BY <1>8 DEF ValueAt
  <2> HIDE DEF env
  <2>7. ASSUME NEW n \in 1 .. 8, Assigned(calls[i])[n].key = s
        PROVE  EnvironmentOrder[n] = s /\ s \in DOMAIN env
    <3>1. Nothing.key # s
      BY DEF Nothing, Setting, IntSetting, StringSetting
    <3> QED
      BY <2>2, <2>7, <3>1
  <2>8. ASSUME NEW n \in 1 .. 8, EnvironmentOrder[n] = s, s \in DOMAIN env
        PROVE  /\ Assigned(calls[i])[n].key = s
               /\ \A p : p[1] = i => Assigned(calls[i])[n].value = ValueAt(p, s)
    BY <2>2, <2>6, <2>8
  <2> QED
    BY <2>3, <2>4, <2>5, <2>7, <2>8 DEF env
<1>9. ASSUME NEW p \in Given(s)
      PROVE  \E n : /\ At(calls, 0, p[1], n, s) /\ Among(p[1], s, p[2], n)
                    /\ Assigned(calls[p[1]])[n].value = ValueAt(p, s)
  <2>1. PICK i \in 1 .. m : i = p[1]
    BY <1>5
  <2>2. p[2] \in Places(calls[i], s)
    BY <1>5, <2>1
  <2>3. CASE calls[i].from = "file"
    <3>1. At(calls, 0, i, p[2], s)
      BY <1>6, <1>7, <2>2, <2>3
    <3>2. Among(i, s, p[2], p[2]) /\ Assigned(calls[i])[p[2]].value = ValueAt(p, s)
      BY <1>7, <2>1, <2>3 DEF Among
    <3> QED
      BY <2>1, <3>1, <3>2
  <2>4. CASE calls[i].from = "env"
    <3>1. p[2] = 1 /\ s \in DOMAIN calls[i].says
      BY <1>8, <2>2, <2>4
    <3>2. PICK n \in 1 .. 8 : EnvironmentOrder[n] = s
      BY <1>8, <2>4, <3>1
    <3>3. /\ Len(Assigned(calls[i])) = 8
          /\ Assigned(calls[i])[n].key = s /\ Assigned(calls[i])[n].value = ValueAt(p, s)
      BY <1>8, <2>1, <2>4, <3>1, <3>2
    <3>4. At(calls, 0, i, n, s)
      BY <1>6, <3>3
    <3> QED
      BY <2>1, <2>4, <3>1, <3>3, <3>4 DEF Among
  <2> QED
    BY <1>2, <2>3, <2>4 DEF Source
<1>10. ASSUME NEW i, NEW n, At(calls, 0, i, n, s)
       PROVE  \E k : <<i, k>> \in Given(s) /\ Among(i, s, k, n)
  <2>1. i \in 1 .. m /\ n \in 1 .. Len(Assigned(calls[i])) /\ Assigned(calls[i])[n].key = s
    BY <1>6, <1>10
  <2>2. CASE calls[i].from = "file"
    <3>1. n \in Places(calls[i], s)
      BY <1>7, <2>1, <2>2
    <3> QED
      BY <1>4, <2>1, <2>2, <3>1 DEF Among
  <2>3. CASE calls[i].from = "env"
    <3>1. 1 \in Places(calls[i], s)
      BY <1>8, <2>1, <2>3
    <3> QED
      BY <1>4, <2>1, <2>3, <3>1 DEF Among
  <2> QED
    BY <1>2, <2>1, <2>2, <2>3 DEF Source
<1> QED
  BY <1>9, <1>10

\* In the environment a setting is named once.
LEMMA NamedOnce ==
  ASSUME FullInv, NEW s \in Setting, NEW i, calls[i].from = "env",
         NEW n, At(calls, 0, i, n, s), NEW k, At(calls, 0, i, k, s)
  PROVE  n = k
<1>1. PICK m \in Nat : m = Len(calls)
  BY LenProperties DEF FullInv, HistoryInv
<1>2. /\ i \in 1 .. m /\ n \in 1 .. Done(calls, 0, i) /\ k \in 1 .. Done(calls, 0, i)
      /\ Assigned(calls[i])[n].key = s /\ Assigned(calls[i])[k].key = s
  BY <1>1 DEF At
<1>3. Assigned(calls[i]) =
        [l \in 1 .. 8 |->
           IF EnvironmentOrder[l] \in DOMAIN calls[i].says
           THEN [key |-> EnvironmentOrder[l],
                 value |-> AsItStands(calls[i].says[EnvironmentOrder[l]]), rest |-> FALSE]
           ELSE Nothing]
  BY Order DEF Assigned
<1>4. Done(calls, 0, i) = 8
  BY <1>3 DEF Done
<1>5. Nothing.key # s
  BY DEF Nothing, Setting, IntSetting, StringSetting
<1>6. EnvironmentOrder[n] = s /\ EnvironmentOrder[k] = s
  BY <1>2, <1>3, <1>4, <1>5
<1> QED
  BY <1>2, <1>4, <1>6, Order

\* What a reader takes for the last place is the latest that was assigned.
LEMMA LastIsLatest ==
  ASSUME FullInv, pc = "idle", LinesFit, NEW s \in Setting, NEW p, IsLast(p, s)
  PROVE  \E n : Latest(calls, 0, p[1], n, s) /\ Assigned(calls[p[1]])[n].value = ValueAt(p, s)
<1>1. p \in Given(s) /\ \A q \in Given(s) : q[1] < p[1] \/ (q[1] = p[1] /\ q[2] <= p[2])
  BY DEF IsLast
<1>2. PICK n : /\ At(calls, 0, p[1], n, s) /\ Among(p[1], s, p[2], n)
               /\ Assigned(calls[p[1]])[n].value = ValueAt(p, s)
  BY <1>1, GivenAt
<1>3. ASSUME NEW j, NEW k, At(calls, 0, j, k, s) PROVE j < p[1] \/ (j = p[1] /\ k <= n)
  <2>1. PICK l : <<j, l>> \in Given(s) /\ Among(j, s, l, k)
    BY <1>3, GivenAt
  <2>2. j < p[1] \/ (j = p[1] /\ l <= p[2])
    BY <1>1, <2>1
  <2>3. CASE j = p[1]
    <3>1. CASE calls[j].from = "file"
      <4>1. l <= p[2]
        BY <1>2, <2>2, <2>3 DEF At
      <4> QED
        BY <1>2, <2>1, <2>3, <3>1, <4>1 DEF Among
    <3>2. CASE calls[j].from = "env"
      <4>1. k = n
        BY <1>2, <1>3, <2>3, <3>2, NamedOnce
      <4>2. n \in Int
        BY <1>2 DEF At
      <4> QED
        BY <2>3, <4>1, <4>2
    <3> QED
      BY <1>2, <2>3, <3>1, <3>2 DEF Among
  <2> QED
    BY <2>2, <2>3
<1>4. Latest(calls, 0, p[1], n, s)
  BY <1>2, <1>3 DEF Latest
<1> QED
  BY <1>2, <1>4

LEMMA DecidedByLast ==
  ASSUME FullInv, pc = "idle", LinesFit
  PROVE  LatestWins
<1>1. /\ \A s \in IntSetting : IntDecided(calls, 0, config[s], s)
      /\ \A s \in StringSetting : TextDecided(calls, 0, strings[s], s)
  <2>1. Len(todo) = 0
    BY DEF FullInv, HistoryInv
  <2> QED
    BY <2>1 DEF FullInv, ValuesInv
<1>2. ASSUME NEW s \in Setting, Given(s) = {} PROVE Unset(calls, 0, s)
  BY <1>2, GivenAt DEF Unset
<1>3. \A s : IntSetting \subseteq Setting /\ StringSetting \subseteq Setting
  BY DEF Setting
<1>4. ASSUME NEW i, NEW n, NEW s, Latest(calls, 0, i, n, s)
      PROVE  i \in 1 .. Len(calls) /\ n \in 1 .. Done(calls, 0, i)
  BY <1>4 DEF Latest, At
<1>5. ASSUME NEW s \in IntSetting
      PROVE  /\ Given(s) = {} => config[s] = DefaultInt[s]
             /\ \A p \in Given(s) : IsLast(p, s) => config[s] = ValueAt(p, s).number
  <2>1. Given(s) = {} => config[s] = DefaultInt[s]
    BY <1>1, <1>2, <1>3 DEF IntDecided
  <2>2. ASSUME NEW p, IsLast(p, s) PROVE config[s] = ValueAt(p, s).number
    <3>1. PICK n : Latest(calls, 0, p[1], n, s) /\ Assigned(calls[p[1]])[n].value = ValueAt(p, s)
      BY <1>3, <2>2, LastIsLatest
    <3> QED
      BY <1>1, <1>4, <3>1 DEF IntDecided
  <2> QED
    BY <2>1, <2>2
<1>6. ASSUME NEW s \in StringSetting
      PROVE  /\ Given(s) = {} => strings[s].text = DefaultText[s]
             /\ \A p \in Given(s) : IsLast(p, s) =>
                  \/ strings[s].text = ValueAt(p, s).text
                  \/ strings[s] = NULL /\ AllocMayFail
  <2>1. Given(s) = {} => strings[s].text = DefaultText[s]
    BY <1>1, <1>2, <1>3 DEF TextDecided
  <2>2. ASSUME NEW p, IsLast(p, s)
        PROVE  \/ strings[s].text = ValueAt(p, s).text
               \/ strings[s] = NULL /\ AllocMayFail
    <3>1. PICK n : Latest(calls, 0, p[1], n, s) /\ Assigned(calls[p[1]])[n].value = ValueAt(p, s)
      BY <1>3, <2>2, LastIsLatest
    <3> QED
      BY <1>1, <1>4, <3>1 DEF TextDecided
  <2> QED
    BY <2>1, <2>2
<1> QED
  BY <1>5, <1>6 DEF LatestWins

\* Whatever is loaded, in whatever order and however often, the last line or
\* variable to name a setting decides it: the environment overrides the file it
\* is loaded after, and what nobody names keeps its default.
THEOREM LastDecides == Spec => []LatestWins
<1>1. FullInv => LatestWins
  <2> SUFFICES ASSUME FullInv, pc = "idle", LinesFit PROVE LatestWins
    BY DEF LatestWins
  <2> QED
    BY DecidedByLast
<1> QED
  BY <1>1, FullInvariance, PTL

\* What config_validate accepts was not given, last, a text for a port, a number
\* of connections or a buffer size, and has its host.
THEOREM AcceptedIsSound == Spec => []AcceptedIsComplete
<1>1. ASSUME FullInv PROVE AcceptedIsComplete
  <2> SUFFICES ASSUME pc = "idle", config_validate, LinesFit
               PROVE  /\ \A s \in {"port", "max_connections", "buffer_size"} :
                           \A p \in Given(s) : IsLast(p, s) => ValueAt(p, s).number # 0
                      /\ strings.host.block \in heap
    BY DEF AcceptedIsComplete
  <2>1. \A s \in IntSetting : \A p \in Given(s) :
          IsLast(p, s) => config[s] = ValueAt(p, s).number
    BY <1>1, DecidedByLast DEF LatestWins
  <2>2. \A s \in {"port", "max_connections", "buffer_size"} : s \in IntSetting /\ config[s] # 0
    <3>1. config.port # 0 /\ config.max_connections # 0 /\ config.buffer_size # 0
      <4>1. /\ config.port \in 1 .. MaxPort /\ config.max_connections >= 1
            /\ config.buffer_size >= 1024
        BY Validated
      <4>2. config.max_connections \in Int /\ config.buffer_size \in Int
        BY <1>1 DEF FullInv, TypeInv, IntSetting
      <4> QED
        BY ONLY <4>1, <4>2, PortNumber
    <3>2. \A s \in {"port", "max_connections", "buffer_size"} : s \in IntSetting
      BY DEF IntSetting
    <3> QED
      BY <3>1, <3>2
  <2>3. strings.host.block \in heap
    <3>1. "host" \in StringSetting
      BY DEF StringSetting
    <3>2. StringsInv /\ strings.host # NULL
      <4>1. strings.host # NULL
        BY Validated
      <4>2. StringsInv
        BY <1>1 DEF FullInv, Inv
      <4> QED
        BY <4>1, <4>2
    <3> QED
      BY <3>1, <3>2 DEF StringsInv
  <2> QED
    BY <2>1, <2>2, <2>3
<1> QED
  BY <1>1, FullInvariance, PTL
=============================================================================
