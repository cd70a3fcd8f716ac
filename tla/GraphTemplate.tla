---------------------------- MODULE GraphTemplate ----------------------------
(***************************************************************************)
(* graphTemplate of orchestrator/job-graph.ts: the kinds of the jobs an     *)
(* audit starts with, what each waits for and how often it may be retried.  *)
(* A template has one job per kind, so a kind names its job.                *)
(***************************************************************************)
EXTENDS Integers

Category == {"sast", "http", "blackbox", "whitebox"}

\* An agent category brings the deterministic category it works on.
Selected(categories) ==
  categories \cup {c \in {"http"} : "blackbox" \in categories}
             \cup {c \in {"sast"} : "whitebox" \in categories}

KindsOf(category) ==
  CASE category = "sast" -> {"semgrep", "normalize_severity"}
    [] category = "http" -> {"katana_discover", "scope_filter", "httpx_verify",
                             "inventory_merge", "inventory_drift"}
    [] category = "blackbox" -> {"blackbox_agent"}
    [] category = "whitebox" -> {"code_map", "whitebox_agent"}

TemplateKinds(mode, categories) ==
  IF mode = "smoke" THEN {"recon"}
  ELSE {"build_provenance"} \cup UNION {KindsOf(c) : c \in Selected(categories)}

DependsOnKinds(kind) ==
  CASE kind \in {"recon", "build_provenance"} -> {}
    [] kind \in {"semgrep", "katana_discover", "code_map"} -> {"build_provenance"}
    [] kind = "normalize_severity" -> {"semgrep"}
    [] kind = "scope_filter" -> {"katana_discover"}
    [] kind = "httpx_verify" -> {"scope_filter"}
    [] kind = "inventory_merge" -> {"httpx_verify"}
    [] kind = "inventory_drift" -> {"inventory_merge"}
    [] kind = "blackbox_agent" -> {"inventory_drift"}
    [] kind = "whitebox_agent" -> {"semgrep", "code_map"}

TemplateMaxRetries(kind) ==
  CASE kind = "scope_filter" -> 0
    [] kind \in {"blackbox_agent", "whitebox_agent"} -> 1
    [] OTHER -> 2
=============================================================================
