---------------------------- MODULE BaseTables -----------------------------
(***************************************************************************)
(* The base tables of LoongBgSrv (base/): bufs, items, pets and skills are *)
(* selected from MySQL once, when the server starts, row after row into    *)
(* arrays, in the order the rows come in, and looked up by id - 1 from     *)
(* then on. A column of a row is a list, "n:a:b", read by ColonBuf.        *)
(***************************************************************************)
EXTENDS Integers, Sequences

CONSTANTS
    BaseCapacity,   \* sMaxBufNum, sMaxItemId, sMaxPetId, sMaxSkillNum of a table
    ListCapacity,   \* sMaxBufParamNum, sMaxBufNum, sMaxSkillNum: of the list of a row
    MaxBaseId,      \* bound: ids that are asked for
    Contents        \* what the database may hold: table -> rows of id and column, the
                    \* fields of a column between its colons

LoadOrder == <<"buf", "item", "pet", "skill">>
BaseTable == {LoadOrder[i] : i \in DOMAIN LoadOrder}

ASSUME BaseAssumption ==
    /\ BaseCapacity \in [BaseTable -> Nat] /\ ListCapacity \in [BaseTable -> Nat]
    /\ MaxBaseId \in Nat
    /\ Contents \subseteq [BaseTable -> Seq([id : Int, column : Seq(Int)])]

VARIABLES
    rowsOf,    \* what it holds
    bases,     \* table -> curNum_ and the array
    loading    \* Base::init: the table it is at, "served", "failed", "wild" when it has
               \* written past the end of an array

baseVars == <<rowsOf, bases, loading>>

\* SkillBase::SkillBase and its like, and the object that is returned for no id
NullBase == [id |-> 0, num |-> 0, list |-> <<>>]

BaseInit ==
    /\ rowsOf \in Contents /\ loading = "buf"
    /\ bases = [t \in BaseTable |->
                  [cur |-> 0, array |-> [i \in 1 .. BaseCapacity[t] |-> NullBase]]]

\* static_cast<short> of an int.
InShort(n) == n >= -32768 /\ n <= 32767
Short(n) == ((n + 32768) % 65536) - 32768

\* MUTANT of GetShort: the colon is not skipped, and ends the next number at once.
GetShortAtColon(column, i) ==
    IF i > Len(column) THEN 1 ELSE IF i = 1 THEN Short(column[1]) ELSE 0

\* ColonBuf::GetShort, the i-th of a column: 1 where the column has ended, and of a
\* number the lower 16 bits.
GetShort(column, i) == IF i > Len(column) THEN 1 ELSE Short(column[i])

\* The count, and as many more.
ListRead(column) ==
    [num |-> GetShort(column, 1),
     list |-> [i \in 1 .. GetShort(column, 1) |-> GetShort(column, i + 1)]]

\* One turn of the loop over the rows of table t.
FetchRow(t) ==
    /\ loading = t /\ bases[t].cur < Len(rowsOf[t])
    /\ LET row == rowsOf[t][bases[t].cur + 1]
           read == ListRead(row.column) IN
       IF bases[t].cur >= BaseCapacity[t] \/ read.num > ListCapacity[t]
       THEN loading' = "wild" /\ UNCHANGED bases
       ELSE /\ bases' = [bases EXCEPT ![t] =
                           [cur |-> @.cur + 1,
                            array |-> [@.array EXCEPT ![bases[t].cur + 1] =
                              [id |-> row.id, num |-> read.num, list |-> read.list]]]]
            /\ UNCHANGED loading
    /\ UNCHANGED rowsOf

FetchBuf == FetchRow("buf")
FetchItem == FetchRow("item")
FetchPet == FetchRow("pet")
FetchSkill == FetchRow("skill")

\* Base::init: the tables one after the other, then the server starts.
NextTable(t) ==
    /\ loading = t /\ bases[t].cur = Len(rowsOf[t])
    /\ loading' = LET i == CHOOSE i \in DOMAIN LoadOrder : LoadOrder[i] = t IN
                  IF i = Len(LoadOrder) THEN "served" ELSE LoadOrder[i + 1]
    /\ UNCHANGED <<rowsOf, bases>>

\* The query of a table fails, and the server does not start.
QueryFails(t) ==
    /\ loading = t /\ bases[t].cur = 0 /\ loading' = "failed"
    /\ UNCHANGED <<rowsOf, bases>>

BaseNext ==
    \/ FetchBuf \/ FetchItem \/ FetchPet \/ FetchSkill
    \/ \E t \in BaseTable : NextTable(t) \/ QueryFails(t)

BaseSpec == BaseInit /\ [][BaseNext]_baseVars

-----------------------------------------------------------------------------
(* Lookups                                                                  *)

BaseAt(t, limit, id) == IF id <= 0 \/ id > limit THEN NullBase ELSE bases[t].array[id]

GetBufBaseInfo(id) == BaseAt("buf", bases["buf"].cur, id)
GetItemBaseInfo(id) == BaseAt("item", BaseCapacity["item"], id)
GetPetBaseInfo(id) == BaseAt("pet", BaseCapacity["pet"], id)
GetSkillBaseInfo(id) == BaseAt("skill", BaseCapacity["skill"], id)

CheckItemId(id) == id > 0 /\ id <= bases["item"].cur
CheckPetId(id) == ~(id < 0 \/ id > bases["pet"].cur)
CheckSkillId(id) == id > 0 /\ id <= bases["skill"].cur

\* PetBase::hasSkill
HasSkillBase(petId, skillId) ==
    LET pet == GetPetBaseInfo(petId) IN
    \E i \in 1 .. pet.num : pet.list[i] = skillId

-----------------------------------------------------------------------------
(* Properties                                                               *)

\* The bufs that a skill or an item adds, and the skills that a pet has, by the
\* database: nothing there is what the lists are about, but the row of that id.
ListInDb(t, id) ==
    LET rows == {i \in DOMAIN rowsOf[t] : rowsOf[t][i].id = id} IN
    IF rows = {} THEN {}
    ELSE LET column == rowsOf[t][CHOOSE i \in rows : TRUE].column IN
         {column[i] : i \in 2 .. Len(column)}
ListOf(base) == {base.list[i] : i \in 1 .. base.num}

\* The rows come in the order of their ids, which are 1, 2, ..., there are not more
\* of them than the arrays hold, every column says how many numbers follow, and no
\* number of it is cut by GetShort.
Orderly ==
    \A t \in BaseTable :
        /\ Len(rowsOf[t]) <= BaseCapacity[t]
        /\ \A i \in DOMAIN rowsOf[t] :
               /\ rowsOf[t][i].id = i
               /\ rowsOf[t][i].column # <<>>
               /\ rowsOf[t][i].column[1] = Len(rowsOf[t][i].column) - 1
               /\ rowsOf[t][i].column[1] <= ListCapacity[t]
               /\ \A j \in DOMAIN rowsOf[t][i].column : InShort(rowsOf[t][i].column[j])

\* A server that serves finds, for every id that it lets pass, what the database has
\* under that id, if the tables are in order: the pet 0 that checkPetId lets pass has
\* no skill, and a buf, which nobody checks, is none when there is no such row.
BasesAreFound ==
    Orderly =>
        /\ loading # "wild"
        /\ loading = "served" =>
               /\ \A id \in -1 .. MaxBaseId : ListOf(GetBufBaseInfo(id)) = ListInDb("buf", id)
               /\ \A id \in -1 .. MaxBaseId : CheckItemId(id) => ListOf(GetItemBaseInfo(id)) = ListInDb("item", id)
               /\ \A id \in -1 .. MaxBaseId : CheckSkillId(id) => ListOf(GetSkillBaseInfo(id)) = ListInDb("skill", id)
               /\ \A id \in -1 .. MaxBaseId, skill \in 0 .. MaxBaseId :
                      CheckPetId(id) => (HasSkillBase(id, skill) <=> skill \in ListInDb("pet", id))
=============================================================================
