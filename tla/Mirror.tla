------------------------------- MODULE Mirror -------------------------------
(***************************************************************************)
(* What the configuration sync promises to whoever keeps files in the      *)
(* directory it writes to: it touches no file that no manifest has named,  *)
(* it puts whole files there that the server held at that moment, and it   *)
(* removes the file of a key only when the manifest in force does not name *)
(* that key.  Another key may be a spelling of the same path: its file is  *)
(* then removed although the manifest names it.                            *)
(***************************************************************************)
EXTENDS Naturals

CONSTANTS
  Keys,        (* names of files on the server                             *)
  Paths,       (* files of the directory                                   *)
  Path(_),     (* Path(k): where key k is kept; two keys may share a file  *)
  Etags        (* contents, each known by its etag; not "none" or "user"   *)

VARIABLES
  upstream,    (* upstream[k]: what the server holds, "none" if nothing    *)
  files,       (* files[p]: an etag, "none", or "user": written by others  *)
  remote,      (* the manifest in force: the etag of each key; <<>> if none *)
  named,       (* keys that any manifest has named                         *)
  touched      (* how often others have written to the directory           *)

vars == <<upstream, files, remote, named, touched>>

Init ==
  /\ upstream = [k \in Keys |-> "none"]
  /\ files \in [Paths -> {"none", "user"}]
  /\ remote = <<>>
  /\ named = {}
  /\ touched = 0

(* The server replaces, adds or deletes a file.                            *)
Publish(k, e) ==
  /\ upstream' = [upstream EXCEPT ![k] = e]
  /\ UNCHANGED <<files, remote, named, touched>>

(* Somebody else writes or deletes a file.                                 *)
Touch(p, content) ==
  /\ content \in {"none", "user"}
  /\ files' = [files EXCEPT ![p] = content]
  /\ touched' = touched + 1
  /\ UNCHANGED <<upstream, remote, named>>

Offer ==
  /\ remote' = upstream
  /\ named' = named \cup {k \in Keys : upstream[k] # "none"}
  /\ UNCHANGED <<upstream, files, touched>>

Close ==
  /\ remote' = <<>>
  /\ UNCHANGED <<upstream, files, named, touched>>

Put(k) ==
  /\ remote # <<>>
  /\ remote[k] # "none"
  /\ upstream[k] # "none"
  /\ files' = [files EXCEPT ![Path(k)] = upstream[k]]
  /\ UNCHANGED <<upstream, remote, named, touched>>

Drop(k) ==
  /\ remote # <<>>
  /\ k \in named
  /\ remote[k] = "none"
  /\ files' = [files EXCEPT ![Path(k)] = "none"]
  /\ UNCHANGED <<upstream, remote, named, touched>>

Next ==
  \/ Offer \/ Close
  \/ \E k \in Keys : Put(k) \/ Drop(k)
  \/ \E k \in Keys, e \in Etags \cup {"none"} : Publish(k, e)
  \/ \E p \in Paths, content \in {"none", "user"} : Touch(p, content)

Spec == Init /\ [][Next]_vars
=============================================================================
