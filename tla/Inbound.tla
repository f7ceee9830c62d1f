------------------------------- MODULE Inbound ------------------------------
(* The inbound sessions of one supplier, quantity and day                    *)
(* (src/inbound/inbound.service.ts).  A session is entered by hand or        *)
(* uploaded; an upload replaces a session it finds, whatever its status, in  *)
(* a transaction that is not serializable.                                   *)
EXTENDS Rows, Integers, FiniteSets

CONSTANTS
    Offices,     \* concurrent calls
    MaxSessions, \* bound: sessions ever created
    MaxByHand    \* bound: sessions entered by hand

ASSUME InboundAssumption ==
    /\ {MaxSessions, MaxByHand} \subseteq Nat
    /\ None \notin {"PENDING", "APPROVED", "REJECTED"}

VARIABLES
    session,  \* sessions, in the order of creation: their status
    stored,   \* sessions created so far
    byHand,   \* of these, entered by hand
    office,   \* what each call is doing
    crossed   \* uploads that created beside a session they had not seen

inboundVars == <<session, stored, byHand, office, crossed>>

SessionIds == 1..MaxSessions

Sessions == Present(session)

AtRest == [pc |-> "idle", on |-> None, missed |-> FALSE]

Leaves(c) == office' = [office EXCEPT ![c] = AtRest]

\* Another session is created while uploads that found none are under way.
Missing(c) == [d \in Offices |->
    IF d # c /\ office[d].pc = "upload" /\ office[d].on = None
    THEN [office[d] EXCEPT !.missed = TRUE] ELSE office[d]]

StoreSession(table) ==
    /\ stored < MaxSessions
    /\ stored' = stored + 1
    /\ session' = [table EXCEPT ![stored + 1] = "PENDING"]

\* create, by hand: no look at what is there.
CreateSession(c) ==
    /\ office[c] = AtRest
    /\ byHand < MaxByHand
    /\ byHand' = byHand + 1
    /\ StoreSession(session)
    /\ office' = Missing(c)
    /\ UNCHANGED crossed

\* approve and reject: the status is read, and written by id later.
DecideRead(c, s, to) ==
    /\ office[c] = AtRest
    /\ s \in Sessions /\ session[s] = "PENDING"
    /\ office' = [office EXCEPT ![c] = [pc |-> to, on |-> s, missed |-> FALSE]]
    /\ UNCHANGED <<session, stored, byHand, crossed>>

\* The update of a session that has been replaced fails.
DecideWrite(c) ==
    /\ office[c].pc \in {"APPROVED", "REJECTED"}
    /\ session' = IF office[c].on \in Sessions
                  THEN [session EXCEPT ![office[c].on] = office[c].pc] ELSE session
    /\ Leaves(c)
    /\ UNCHANGED <<stored, byHand, crossed>>

\* Mutant: a session that was decided is not taken for a duplicate.
DuplicatePending(s) == session[s] = "PENDING"

\* Same site, supplier, quantity and day; the status is not asked for.
Duplicate(s) == TRUE

UploadFind(c) ==
    /\ office[c] = AtRest
    /\ LET found == {s \in Sessions : Duplicate(s)} IN
       \E s \in (IF found = {} THEN {None} ELSE found) :
        office' = [office EXCEPT ![c] = [pc |-> "upload", on |-> s, missed |-> FALSE]]
    /\ UNCHANGED <<session, stored, byHand, crossed>>

\* delete and create commit together; of two that found the same session the
\* second fails.
UploadReplace(c) ==
    /\ office[c].pc = "upload"
    /\ office[c].on # None
    /\ IF office[c].on \in Sessions
       THEN StoreSession([session EXCEPT ![office[c].on] = None])
       ELSE UNCHANGED <<session, stored>>
    /\ Leaves(c)
    /\ UNCHANGED <<byHand, crossed>>

UploadCreate(c) ==
    /\ office[c].pc = "upload"
    /\ office[c].on = None
    /\ StoreSession(session)
    /\ crossed' = IF office[c].missed THEN crossed + 1 ELSE crossed
    /\ office' = [Missing(c) EXCEPT ![c] = AtRest]
    /\ UNCHANGED byHand

OfficeDies(c) ==
    /\ office[c] # AtRest
    /\ Leaves(c)
    /\ UNCHANGED <<session, stored, byHand, crossed>>

InboundInit ==
    /\ session = [s \in SessionIds |-> None]
    /\ stored = 0
    /\ byHand = 0
    /\ office = [c \in Offices |-> AtRest]
    /\ crossed = 0

InboundNext == \E c \in Offices :
    \/ CreateSession(c) \/ DecideWrite(c) \/ UploadFind(c) \/ UploadReplace(c) \/ UploadCreate(c)
    \/ OfficeDies(c)
    \/ \E s \in SessionIds, to \in {"APPROVED", "REJECTED"} : DecideRead(c, s, to)

InboundSpec == InboundInit /\ [][InboundNext]_inboundVars

-----------------------------------------------------------------------------
(* Property *)

\* "중복 삭제 + 새 세션 생성을 트랜잭션으로 묶기": a spreadsheet uploaded again takes
\* the place of its first upload.  Every further session of the same supplier,
\* quantity and day was entered by hand, or created by an upload that had looked
\* before another session was there.
UploadReplaces == Cardinality(Sessions) <= 1 + byHand + crossed
=============================================================================
