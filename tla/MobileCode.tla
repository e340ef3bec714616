----------------------------- MODULE MobileCode -----------------------------
(***************************************************************************)
(* One-time codes as the phone app uses them: send_mobile_otp and          *)
(* verify_mobile_otp of mobile/router.py, for the phone whose codes        *)
(* OneTimeCode follows.                                                    *)
(*                                                                         *)
(* Two keys of Redis stand before the table: a cooldown between two codes  *)
(* and a count of the codes entered.  Both are read and written by single  *)
(* calls (SET NX, a script for INCR); a call that fails refuses the        *)
(* request, as it does in production and staging, and may have been        *)
(* carried out.  The handlers are coroutines and their calls of the        *)
(* database are not awaited: from one await to the next a process works    *)
(* for one request.                                                        *)
(*                                                                         *)
(* A code is stored for the phone of the user's row and then, anew, for    *)
(* the phone that was entered.  When these are one phone its text gets two *)
(* numbers; a user who enters it enters either of them, which only says    *)
(* that a wrong code may be entered at any time.                           *)
(***************************************************************************)
EXTENDS OneTimeCode

CONSTANTS
    MaxTries,       \* codes entered in five minutes: 5
    MaxTroubles     \* bound: failing calls, restarts, expiries of codes and windows,
                    \*        and cooldowns that do not guard, in all

ASSUME MobileAssumption == MaxTries \in Nat \ {0} /\ MaxTroubles \in Nat

VARIABLES
    tries,          \* rll:mobile_otp_attempts: the count, 0 for no key
    cooling,        \* rll:otp_cooldown: is the key there?
    front,          \* what a request does next, outside OneTimeCode, and where
    losses,         \* bound: failing calls of Redis, cooldowns that do not guard
    unguarded       \* history: was a request at work without the cooldown?

frontVars  == <<tries, cooling, front, losses, unguarded>>
mobileVars == <<vars, frontVars>>

Idle == [do |-> "idle"]

Does(r, what) == front[r].do = what /\ pc[r] = "idle"

GoesTo(r, what) == front' = [front EXCEPT ![r].do = what]
Leave(r) == front' = [front EXCEPT ![r] = Idle]

Places == [do : {"cool", "find", "give_back", "store", "verify", "clear"},
           p : Process]

MobileTypeOK ==
    /\ tries \in 0 .. MaxTries + 1
    /\ cooling \in BOOLEAN
    /\ front \in [Request -> Places \cup {Idle}]
    /\ losses \in Nat
    /\ unguarded \in BOOLEAN

MobileInit ==
    /\ Init
    /\ tries = 0 /\ cooling = FALSE
    /\ front = [r \in Request |-> Idle]
    /\ losses = 0 /\ unguarded = FALSE

\* A call of Redis fails, or does not.
Lose(lost) ==
    losses' = IF lost THEN losses + 1 ELSE losses

\* The process does not work for another request.
Free(p, r) ==
    \A q \in Request \ {r} :
        /\ at[q] = p => pc[q] = "idle"
        /\ front[q].do = "store" => front[q].p # p

\* The requests that hold the cooldown, or did.
Sending(r) ==
    \/ front[r].do \in {"find", "give_back", "store"}
    \/ pc[r] \in {"delete_old", "insert"}

-----------------------------------------------------------------------------
(***************************************************************************)
(* send_mobile_otp.                                                        *)
(***************************************************************************)

\* A count that cannot be read is taken for zero.
AskCode(r, p, lost) ==
    /\ Does(r, "idle")
    /\ tries < MaxTries \/ lost
    /\ Lose(lost)
    /\ front' = [front EXCEPT ![r] = [do |-> "cool", p |-> p]]
    /\ UNCHANGED <<vars, tries, cooling, unguarded>>

\* A user is found by his address first: who enters another phone with it has the
\* count and the cooldown of that one, and a code is stored here all the same.
AskElsewhere(r, p) ==
    /\ Does(r, "idle") /\ Free(p, r)
    /\ Lose(TRUE)
    /\ unguarded' = TRUE
    /\ front' = [front EXCEPT ![r] = [do |-> "store", p |-> p]]
    /\ UNCHANGED <<vars, tries, cooling>>

\* Mutant: the key is looked up and then set.
CoolAnyway(r, lost) ==
    /\ Does(r, "cool")
    /\ Lose(lost)
    /\ cooling' = TRUE
    /\ IF lost THEN Leave(r) ELSE GoesTo(r, "find")
    /\ UNCHANGED <<vars, tries, unguarded>>

Cool(r, lost) ==
    /\ Does(r, "cool")
    /\ Lose(lost)
    /\ cooling' = TRUE \/ (lost /\ UNCHANGED cooling)
    /\ IF cooling \/ lost THEN Leave(r) ELSE GoesTo(r, "find")
    /\ UNCHANGED <<vars, tries, unguarded>>

\* Nobody of that phone or address, or nobody active, or the look-up failed.
FindNobody(r) ==
    /\ Does(r, "find") /\ Free(front[r].p, r)
    /\ GoesTo(r, "give_back")
    /\ UNCHANGED <<vars, tries, cooling, losses, unguarded>>

GiveBack(r, lost) ==
    /\ Does(r, "give_back")
    /\ Lose(lost)
    /\ cooling' = FALSE \/ (lost /\ UNCHANGED cooling)
    /\ Leave(r)
    /\ UNCHANGED <<vars, tries, unguarded>>

\* The user is found.  Stored for the phone of his row, the code is stored for
\* the phone entered; the first is another phone, or is stored anew.  Nobody
\* looks whether a code was stored; the message is sent all the same.
StoreCode(r) ==
    LET p == front[r].p IN
    /\ Does(r, "find") \/ Does(r, "store")
    /\ Free(p, r)
    /\ Leave(r) \/ (Does(r, "find") /\ GoesTo(r, "store"))
    /\ \/ BeginStore(r, p)
       \/ (LockedOut(p) \/ next > MaxCodes) /\ UNCHANGED vars
    /\ UNCHANGED <<tries, cooling, losses, unguarded>>

-----------------------------------------------------------------------------
(***************************************************************************)
(* verify_mobile_otp.                                                      *)
(***************************************************************************)
Counted == IF tries > MaxTries THEN tries ELSE tries + 1

CountTry(r, p, lost) ==
    /\ Does(r, "idle")
    /\ Lose(lost)
    /\ tries' = Counted \/ (lost /\ UNCHANGED tries)
    /\ front' = IF lost \/ tries >= MaxTries THEN front
                ELSE [front EXCEPT ![r] = [do |-> "verify", p |-> p]]
    /\ UNCHANGED <<vars, cooling, unguarded>>

EnterCode(r) ==
    /\ Does(r, "verify") /\ Free(front[r].p, r)
    /\ \E c \in Guess : BeginVerify(r, front[r].p, c)
    /\ Leave(r)
    /\ UNCHANGED <<tries, cooling, losses, unguarded>>

\* What store_otp_in_db and verify_otp_from_db do; an answer True clears the count.
CodeStep(r) ==
    /\ RequestStep(r)
    /\ front' = IF accepted' = accepted THEN front
                ELSE [front EXCEPT ![r] = [do |-> "clear", p |-> at[r]]]
    /\ UNCHANGED <<tries, cooling, losses, unguarded>>

ClearTries(r, lost) ==
    /\ Does(r, "clear")
    /\ Lose(lost)
    /\ tries' = 0 \/ (lost /\ UNCHANGED tries)
    /\ Leave(r)
    /\ UNCHANGED <<vars, cooling, unguarded>>

-----------------------------------------------------------------------------
\* The keys end by themselves, thirty seconds and five minutes after they began.
CoolingEnds ==
    /\ cooling
    /\ cooling' = FALSE
    /\ \/ (\A r \in Request : ~Sending(r)) /\ UNCHANGED <<unguarded, losses>>
       \/ (\E r \in Request : Sending(r)) /\ unguarded' = TRUE /\ Lose(TRUE)
    /\ UNCHANGED <<vars, tries, front>>

TriesEnd ==
    /\ tries > 0
    /\ tries' = 0
    /\ UNCHANGED <<vars, cooling, front, losses, unguarded>>

Time ==
    /\ \/ \E c \in Code : Expire(c)
       \/ \E p \in Process : WindowEnds(p)
    /\ UNCHANGED frontVars

RestartWhole(p) ==
    /\ Restart(p)
    /\ front' = [r \in Request |->
                    IF (at[r] = p /\ pc[r] # "idle") \/ (front[r].do # "idle" /\ front[r].p = p)
                    THEN Idle ELSE front[r]]
    /\ UNCHANGED <<tries, cooling, losses, unguarded>>

MobileStep ==
    \/ \E r \in Request :
          \/ \E lost \in BOOLEAN :
                \/ \E p \in Process : AskCode(r, p, lost) \/ CountTry(r, p, lost)
                \/ Cool(r, lost) \/ GiveBack(r, lost) \/ ClearTries(r, lost)
          \/ \E p \in Process : AskElsewhere(r, p)
          \/ FindNobody(r) \/ StoreCode(r) \/ EnterCode(r) \/ CodeStep(r)
    \/ CoolingEnds \/ TriesEnd \/ Time
    \/ \E p \in Process : RestartWhole(p)

MobileNext == MobileStep /\ faults' + timeouts' + losses' <= MaxTroubles

MobileSpec == MobileInit /\ [][MobileNext]_mobileVars

-----------------------------------------------------------------------------

\* Two requests for a code, in two processes, would each delete the old rows
\* before either inserts, and leave two codes of one phone; the cooldown keeps
\* them apart.  Unless a request was at work when its cooldown ended, or had that
\* of another phone, the rows of the phone are copies of one code, whatever fails.
OneLiveCode ==
    \/ unguarded
    \/ \A v, w \in stored : v[1] = w[1]

=============================================================================
