--------------------------- MODULE OutboundPolicy ---------------------------
(***************************************************************************)
(* The outbound policy of crm/connect/policy.py: the checks that decide    *)
(* whether an outbound action through a connection may run, in their       *)
(* order.  The first one that fails gives the decision's code.             *)
(*                                                                         *)
(* A connection is a record of the Connection row with what its connector  *)
(* class says: installed, status, capabilities (those enabled),            *)
(* acknowledged (its data flows, in their current version), owner, or      *)
(* Nobody for a firm-wide one, adminOnly and preview.  A request says which *)
(* capability it needs, who acts, or Nobody, whether that person manages   *)
(* connections, whether it is an automation, whether it only keeps the     *)
(* owner's own record in step (owner_sync) and whether its recipient has   *)
(* opted out of texts.                                                     *)
(***************************************************************************)
EXTENDS Integers, Sequences

CONSTANTS
    OutboundEnabled,  \* settings.CONNECTORS_OUTBOUND_ENABLED
    HourlyLimit,      \* settings.CONNECTORS_OUTBOUND_HOURLY_LIMIT
    Nobody            \* no owner, no actor

ASSUME PolicyAssumption ==
    /\ OutboundEnabled \in BOOLEAN
    /\ HourlyLimit \in Nat

\* A personal connection runs its owner's own requests, and automations that keep
\* the owner's own records in step.
Personal(conn, request) ==
    /\ conn.owner # Nobody
    /\ request.automation \/ request.actor # conn.owner
    /\ ~(request.automation /\ request.ownerSync)

AdminOnly(conn, request) ==
    conn.adminOnly /\ ~request.automation /\ ~request.manager

OptedOut(request) == request.capability = "texting" /\ request.optedOut

\* Slip: the limit is passed by one.
LimitPassed(recent) == recent > HourlyLimit

\* recent: the connection's SENT requests of the last hour.
LimitReached(recent) == recent >= HourlyLimit

Checks(conn, request, recent) ==
    << [code |-> "outbound_disabled",           holds |-> ~OutboundEnabled],
       [code |-> "connector_not_installed",     holds |-> ~conn.installed],
       [code |-> "connection_inactive",         holds |-> conn.status # "active"],
       [code |-> "capability_not_enabled",
            holds |-> request.capability \notin conn.capabilities],
       [code |-> "data_flows_not_acknowledged", holds |-> ~conn.acknowledged],
       [code |-> "personal_connection",         holds |-> Personal(conn, request)],
       [code |-> "admin_only",                  holds |-> AdminOnly(conn, request)],
       [code |-> "recipient_opted_out",         holds |-> OptedOut(request)],
       [code |-> "rate_limited",                holds |-> LimitReached(recent)],
       [code |-> "preview_mode",                holds |-> conn.preview],
       [code |-> "ok",                          holds |-> TRUE] >>

\* evaluate: the first check that holds decides.
Evaluate(conn, request, recent) ==
    LET checks == Checks(conn, request, recent)
        first == CHOOSE i \in DOMAIN checks :
                    checks[i].holds /\ \A j \in 1..(i - 1) : ~checks[j].holds
    IN checks[first].code

Codes == {"outbound_disabled", "connector_not_installed", "connection_inactive",
          "capability_not_enabled", "data_flows_not_acknowledged", "personal_connection",
          "admin_only", "recipient_opted_out", "rate_limited", "preview_mode", "ok"}
=============================================================================
