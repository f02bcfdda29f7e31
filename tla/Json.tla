-------------------------------- MODULE Json --------------------------------
(***************************************************************************)
(* lib/json_util of client and server.  What goes over a connection is a   *)
(* message {code, data}; its data is again a text: a JSON object that      *)
(* pack_signdata or pack_afdata made, or a sentence that is no JSON at all.*)
(* Only the members of an object matter; a sentence has none, as           *)
(* json_tokener_parse returns NULL for it and so does every look-up.       *)
(***************************************************************************)
SignMembers == {"username", "password"}
AfMembers   == {"username", "friendname"}

Sentence(t) == [sentence |-> t]

PackSignData(sd) == [object |-> [m \in SignMembers |-> sd[m]]]

PackAfData(afd) == [object |-> [m \in AfMembers |-> afd[m]]]

\* The member is found and not NULL, so that strcpy has something to copy.
HasMembers(data, members) ==
  "object" \in DOMAIN data /\ members \subseteq DOMAIN data.object

\* parse_signdata and parse_afdata: the caller must know that HasMembers.
ParseSignData(data) == [m \in SignMembers |-> data.object[m]]

ParseAfData(data) == [m \in AfMembers |-> data.object[m]]

PackMsg(code, data) == [code |-> code, data |-> data]
=============================================================================
