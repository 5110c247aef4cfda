---------------------------- MODULE GovWinClient ----------------------------
(***************************************************************************)
(* The OAuth2 tokens of GovWin (src/govwin/auth.py) and the request loop   *)
(* that uses them (src/govwin/client.py, _request).  Every invocation of   *)
(* the orchestrator and of the workers has a GovWinAuth of its own; they   *)
(* share the token through one secret in Secrets Manager, which each of    *)
(* them reads, replaces when it got a new token, and clears when GovWin    *)
(* refused the one it sent.  Nothing orders these reads and writes.        *)
(*                                                                         *)
(* A token is the number under which GovWin issued it, and so is the       *)
(* refresh token that came with it.  The rate limiter, which can end a     *)
(* request before it starts, is in RateLimits.                             *)
(***************************************************************************)
EXTENDS Naturals, Sequences, FiniteSets

CONSTANTS
    Clients,        \* concurrent invocations
    Life,           \* expires_in of a token
    Buffer,         \* token_expiry_buffer_seconds
    MaxNow,         \* bound: the clock
    MaxTokens,      \* bound: tokens GovWin issues
    TokenFaults,    \* which failures can happen, see below
    MaxTokenFaults  \* bound: failures injected in a behaviour

(***************************************************************************)
(*   withdraw    GovWin stops taking an access token before it expires     *)
(*   no_refresh  GovWin does not take a refresh token                      *)
(*   no_answer   a request to GovWin gets no answer, or a 5xx              *)
(*   no_vault    Secrets Manager refuses a read                            *)
(*   no_put      Secrets Manager refuses a write                           *)
(***************************************************************************)
TokenFaultKinds == {"withdraw", "no_refresh", "no_answer", "no_vault", "no_put"}

ASSUME TokenAssumption ==
    /\ \A n \in {Life, Buffer, MaxNow, MaxTokens, MaxTokenFaults} : n \in Nat
    /\ TokenFaults \subseteq TokenFaultKinds

\* stop_after_attempt(3) of _request.
Attempts == 3

VARIABLES
    now,
    issued,     \* GovWin: the token issued at each number, and when it expires
    withdrawn,  \* GovWin: access tokens it no longer takes
    vault,      \* Secrets Manager: the shared token
    client,     \* per invocation: its GovWinAuth and its request
    unput,      \* whether Secrets Manager ever refused a write
    tfaults

tvars == <<now, issued, withdrawn, vault, client, unput, tfaults>>

Numbers  == 1..MaxTokens
Grant    == [token : Numbers \cup {0}, expires : 0..(MaxNow + Life)]
NoGrant  == [token |-> 0, expires |-> 0]
TokenPcs == {"off", "ready", "load", "refresh", "login", "cache", "send", "clear", "again"}
Client   == [pc : TokenPcs, mem : Grant, refresh : Numbers \cup {0}, tries : 0..Attempts,
             refused : SUBSET Numbers]
Off      == [pc |-> "off", mem |-> NoGrant, refresh |-> 0, tries |-> 0, refused |-> {}]

TokenInit ==
    /\ now = 0 /\ issued = << >> /\ withdrawn = {} /\ vault = NoGrant
    /\ client = [c \in Clients |-> Off] /\ unput = FALSE /\ tfaults = 0

-----------------------------------------------------------------------------
(* Helpers.                                                                *)

Is(c, pc)    == client[c].pc = pc
Move(c, pc)  == client' = [client EXCEPT ![c].pc = pc]
TFault(kind) == kind \in TokenFaults /\ tfaults < MaxTokenFaults /\ tfaults' = tfaults + 1

\* _is_token_valid, and the same test on what the vault holds.
Valid(g) == g.token # 0 /\ g.expires > now + Buffer

\* tenacity: the request starts over, or its last error leaves it.
Over(c) == IF client[c].tries < Attempts THEN "again" ELSE "ready"

\* GovWin issues a token, which the invocation keeps in memory.
Issue(c) ==
    /\ Len(issued) < MaxTokens
    /\ issued' = Append(issued, now + Life)
    /\ client' = [client EXCEPT ![c].mem = [token |-> Len(issued) + 1, expires |-> now + Life],
                                ![c].pc = "cache"]

-----------------------------------------------------------------------------
(* The environment.                                                        *)

Pass ==
    /\ now < MaxNow /\ now' = now + 1
    /\ UNCHANGED <<issued, withdrawn, vault, client, unput, tfaults>>

Withdraw(t) ==
    /\ t \notin withdrawn /\ TFault("withdraw")
    /\ withdrawn' = withdrawn \cup {t}
    /\ UNCHANGED <<now, issued, vault, client, unput>>

\* An invocation starts with nothing in memory; it may end at any time.
Invoke(c) ==
    /\ client' = [client EXCEPT ![c] = IF @ = Off THEN [Off EXCEPT !.pc = "ready"] ELSE Off]
    /\ UNCHANGED <<now, issued, withdrawn, vault, unput, tfaults>>

-----------------------------------------------------------------------------
(* GovWinAuth.access_token.                                                *)

\* An attempt at a request: the token in memory, if it is good for a while.
Headers(c) ==
    /\ Is(c, "ready") \/ Is(c, "again")
    /\ client' = [client EXCEPT ![c].tries = IF Is(c, "ready") THEN 1 ELSE @ + 1,
                                ![c].pc = IF Valid(client[c].mem) THEN "send" ELSE "load"]
    /\ UNCHANGED <<now, issued, withdrawn, vault, unput, tfaults>>

\* Otherwise the one in the vault, else its refresh token, else the password.
LoadToken(c) ==
    /\ Is(c, "load")
    /\ \/ /\ client' = IF Valid(vault)
                         THEN [client EXCEPT ![c].mem = vault, ![c].pc = "send"]
                         ELSE [client EXCEPT ![c].refresh = vault.token,
                                  ![c].pc = IF vault.token # 0 THEN "refresh" ELSE "login"]
          /\ UNCHANGED tfaults
       \/ TFault("no_vault") /\ Move(c, "login")
    /\ UNCHANGED <<now, issued, withdrawn, vault, unput>>

\* _refresh_access_token: a refusal leads to the password, no answer to a new
\* attempt.
Refresh(c) ==
    /\ Is(c, "refresh")
    /\ \/ Issue(c) /\ UNCHANGED tfaults
       \/ TFault("no_refresh") /\ Move(c, "login") /\ UNCHANGED issued
       \/ TFault("no_answer") /\ Move(c, Over(c)) /\ UNCHANGED issued
    /\ UNCHANGED <<now, withdrawn, vault, unput>>

\* _authenticate: its errors are not retried.
Login(c) ==
    /\ Is(c, "login")
    /\ \/ Issue(c) /\ UNCHANGED tfaults
       \/ TFault("no_answer") /\ Move(c, "ready") /\ UNCHANGED issued
    /\ UNCHANGED <<now, withdrawn, vault, unput>>

\* Put to the vault, best effort.
Put(grant) ==
    \/ vault' = grant /\ UNCHANGED <<unput, tfaults>>
    \/ TFault("no_put") /\ unput' = TRUE /\ UNCHANGED vault

\* _cache_tokens.
Cache(c) ==
    /\ Is(c, "cache")
    /\ Put(client[c].mem)
    /\ Move(c, "send")
    /\ UNCHANGED <<now, issued, withdrawn>>

-----------------------------------------------------------------------------
(* GovWinClient._request.                                                  *)

Good(t) == t \notin withdrawn /\ issued[t] > now

\* The answer; with a 401 the token in memory is dropped ...
Send(c) ==
    LET t == client[c].mem.token IN
    /\ Is(c, "send")
    /\ \/ /\ client' = IF Good(t) THEN [client EXCEPT ![c].pc = "ready"]
                       ELSE [client EXCEPT ![c].pc = "clear", ![c].mem = NoGrant,
                                           ![c].refused = @ \cup {t}]
          /\ UNCHANGED tfaults
       \/ TFault("no_answer") /\ Move(c, Over(c))
    /\ UNCHANGED <<now, issued, withdrawn, vault, unput>>

\* Mutant: invalidate leaves the vault to the next token.
Clear_MemoryOnly(c) ==
    /\ Is(c, "clear")
    /\ Move(c, Over(c))
    /\ UNCHANGED <<now, issued, withdrawn, vault, unput, tfaults>>

\* ... and the vault is emptied, whatever it holds by now: invalidate.
Clear(c) ==
    /\ Is(c, "clear")
    /\ Put(NoGrant)
    /\ Move(c, Over(c))
    /\ UNCHANGED <<now, issued, withdrawn>>

-----------------------------------------------------------------------------

TokenNext ==
    \/ Pass
    \/ \E t \in DOMAIN issued : Withdraw(t)
    \/ \E c \in Clients :
          \/ Invoke(c) \/ Headers(c) \/ LoadToken(c) \/ Refresh(c) \/ Login(c) \/ Cache(c)
          \/ Send(c) \/ Clear(c)

TokenSpec == TokenInit /\ [][TokenNext]_tvars

-----------------------------------------------------------------------------
(* Properties.                                                             *)

\* Types of what GovWin, the vault and the invocations hold.
TokenTypeOK ==
    /\ now \in 0..MaxNow
    /\ issued \in Seq(0..(MaxNow + Life)) /\ Len(issued) <= MaxTokens
    /\ withdrawn \subseteq DOMAIN issued
    /\ vault \in Grant /\ vault.token \in DOMAIN issued \cup {0}
    /\ client \in [Clients -> Client]
    /\ unput \in BOOLEAN /\ tfaults \in 0..MaxTokenFaults

\* A token that GovWin refused an invocation is not sent by it again, though
\* other invocations write the vault at any moment between the refusal and the
\* next attempt; only a vault that could not be cleared brings it back.
RefusedNotReused ==
    \A c \in Clients : Is(c, "send") => client[c].mem.token \notin client[c].refused \/ unput
=============================================================================
