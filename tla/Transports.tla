----------------------------- MODULE Transports -----------------------------
(***************************************************************************)
(* What the HTTP routes, the gRPC services and the command line offer, the *)
(* role each operation asks for, the errors its use case can return and    *)
(* the answer each of them becomes.                                        *)
(***************************************************************************)
EXTENDS FiniteSets

CONSTANT None

-----------------------------------------------------------------------------
(* Roles, as domain.Role sees them.  A user created from the command line  *)
(* may hold a role that is none of them.                                   *)

Roles == {"admin", "operator", "viewer"}
IsValid(role) == role \in Roles

CanCreate(role) == role \in {"admin", "operator"}
CanManageAccounts(role) == role = "admin"

(* RequireRole and RequireRoleInterceptor.                                 *)
RequireRole(minRole, role) ==
  CASE minRole = "admin" -> role = "admin"
    [] minRole = "operator" -> role \in {"admin", "operator"}
    [] OTHER -> TRUE
RequireRoleInterceptor(minRole, role) == RequireRole(minRole, role)

-----------------------------------------------------------------------------
(* Operations.  Reads that differ only in what they select are one.        *)

AccountOps == {"account.create", "account.get", "account.list"}
TransferOps == {"transfer.create", "transfer.batch", "transfer.reverse",
                "transfer.get", "transfer.list"}
HoldOps == {"hold.create", "hold.void", "hold.capture", "hold.list"}

Mutations == {"account.create",
              "transfer.create", "transfer.batch", "transfer.reverse",
              "hold.create", "hold.void", "hold.capture"}

(* The action an audit row names: a batch is so many transfers created.    *)
AuditAction(op) == IF op = "transfer.batch" THEN "transfer.create" ELSE op

(* What NewRouter mounts behind requireAuth, with the role each route asks *)
(* for.                                                                    *)
Routes ==
  [op \in AccountOps \cup TransferOps \cup (HoldOps \ {"hold.list"})
            \cup {"entry.list", "ledger.consistency", "auth.me", "audit.read"} |->
     CASE op \in {"account.create", "audit.read"} -> "admin"
       [] op \in Mutations \ {"account.create"} -> "operator"
       [] OTHER -> None]

(* The methods of the three services, and what MethodRoleInterceptor makes *)
(* of grpcMethodRoles for them: a method it does not list asks for a       *)
(* viewer.                                                                 *)
Methods == AccountOps \cup TransferOps \cup HoldOps
grpcMethodRoles ==
  [op \in Mutations |-> IF op = "account.create" THEN "admin" ELSE "operator"]
MethodRole(op) ==
  IF op \in DOMAIN grpcMethodRoles THEN grpcMethodRoles[op] ELSE "viewer"

(* The command line's own use of the use cases.                            *)
AccountCmds == AccountOps
TransferCmds == {"transfer.create", "transfer.get"}
HoldCmds == {"hold.create", "hold.void", "hold.capture"}
Commands == AccountCmds \cup TransferCmds \cup HoldCmds

-----------------------------------------------------------------------------
(* Errors.  "invalid" is a name, a currency or metadata validation         *)
(* refuses, "database" whatever PostgreSQL or the connection reports.      *)

LimitErrors == {"NegativeBalanceNotAllowed", "PositiveBalanceNotAllowed"}
ContextErrors == {"deadline", "canceled"}
ServerErrors == ContextErrors \cup {"database"}

TransferErrors == LimitErrors \cup {"AccountNotFound", "CurrencyMismatch"}

Refusals(op) ==
  CASE op = "account.create" -> {"invalid"}
    [] op \in {"transfer.create", "transfer.batch"} ->
         TransferErrors \cup {"SameAccount", "InvalidAmount", "invalid"}
    [] op = "transfer.reverse" ->
         TransferErrors \cup {"TransferNotFound", "TransferAlreadyReversed", "invalid"}
    [] op = "hold.create" ->
         {"AccountNotFound", "InvalidAmount", "NegativeBalanceNotAllowed"}
    [] op = "hold.void" -> {"HoldNotFound", "HoldNotActive", "AccountNotFound"}
    [] op = "hold.capture" ->
         {"HoldNotFound", "HoldNotActive", "AccountNotFound",
          "CurrencyMismatch", "PositiveBalanceNotAllowed"}
    [] op = "account.get" -> {"AccountNotFound"}
    [] op = "transfer.get" -> {"TransferNotFound"}
    [] op = "ledger.consistency" -> {"inconsistent"}
    [] OTHER -> {}

ASSUME NoneAssumption ==
  /\ None \notin Roles \cup ServerErrors \cup {"malformed"}
  /\ \A op \in Methods \cup DOMAIN Routes : None \notin Refusals(op)

(* The requests whose body, amount or parameters a handler can fail to     *)
(* read, before it calls its use case.                                     *)
Parsed(via) ==
  CASE via = "http" -> (Mutations \ {"hold.void"}) \cup {"entry.list", "audit.read"}
    [] via = "grpc" -> {"transfer.create", "transfer.batch", "hold.create"}
    [] via = "cli" -> {"transfer.create", "hold.create"}

(* What a use case can come back with: the change made or not, and the     *)
(* error.  An error after COMMIT was sent leaves the change in doubt.      *)
Results(op) ==
  {[done |-> op \in Mutations, err |-> None]}
    \cup {[done |-> FALSE, err |-> e] :
            e \in IF op = "auth.me" THEN {} ELSE Refusals(op) \cup ServerErrors}
    \cup {[done |-> TRUE, err |-> e] : e \in IF op \in Mutations THEN ServerErrors ELSE {}}

-----------------------------------------------------------------------------
(* Answers.                                                                *)

(* Mutant: what is not known is the client's fault.                        *)
mapUnknownTo400(err) ==
  IF err \in {"AccountNotFound", "TransferNotFound"} THEN "404" ELSE "400"
mapDomainError(err) ==
  CASE err \in {"AccountNotFound", "TransferNotFound"} -> "404"
    [] err \in LimitErrors \cup {"SameAccount", "InvalidAmount", "CurrencyMismatch"} -> "400"
    [] OTHER -> "500"

(* The HTTP handlers.                                                      *)
AccountHandler(op, err) ==
  IF err = "malformed" THEN "400"
  ELSE IF op = "account.get" THEN mapDomainError(err) ELSE "500"
TransferHandler(op, err) ==
  IF err = "malformed" THEN "400"
  ELSE IF op = "transfer.list" THEN "500" ELSE mapDomainError(err)
HoldHandler(err) == IF err = "malformed" THEN "400" ELSE mapDomainError(err)
EntryHandler(err) == IF err = "malformed" THEN "400" ELSE "500"
LedgerHandler(err) == IF err = "inconsistent" THEN "409" ELSE "500"
AuditHandler(err) == IF err = "malformed" THEN "400" ELSE "500"

HttpAnswer(op, err) ==
  IF err = None THEN "ok" ELSE
  CASE op \in AccountOps -> AccountHandler(op, err)
    [] op \in TransferOps -> TransferHandler(op, err)
    [] op \in HoldOps -> HoldHandler(err)
    [] op = "entry.list" -> EntryHandler(err)
    [] op = "ledger.consistency" -> LedgerHandler(err)
    [] op = "audit.read" -> AuditHandler(err)

(* The gRPC servers.                                                       *)
MapDomainError(err) ==
  CASE err \in {"AccountNotFound", "TransferNotFound", "HoldNotFound"} -> "NotFound"
    [] err \in {"InvalidAmount", "SameAccount", "CurrencyMismatch"} -> "InvalidArgument"
    [] err \in LimitErrors \cup {"HoldNotActive", "TransferAlreadyReversed"} ->
         "FailedPrecondition"
    [] err = "deadline" -> "DeadlineExceeded"
    [] err = "canceled" -> "Canceled"
    [] OTHER -> "Internal"

AccountServer(err) == MapDomainError(err)
TransferServer(err) == IF err = "malformed" THEN "InvalidArgument" ELSE MapDomainError(err)
HoldServer(err) == IF err = "malformed" THEN "InvalidArgument" ELSE MapDomainError(err)

GrpcAnswer(op, err) ==
  IF err = None THEN "ok" ELSE
  CASE op \in AccountOps -> AccountServer(err)
    [] op \in TransferOps -> TransferServer(err)
    [] op \in HoldOps -> HoldServer(err)

CommandAnswer(err) == IF err = None THEN "ok" ELSE "exit 1"

(* The answers that tell a client its request had no effect and never      *)
(* will.                                                                   *)
FinalAnswers ==
  {"400", "401", "403", "404", "InvalidArgument", "NotFound",
   "FailedPrecondition", "Unauthenticated", "PermissionDenied"}
=============================================================================
