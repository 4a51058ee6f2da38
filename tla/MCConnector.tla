----------------------------- MODULE MCConnector -----------------------------
EXTENDS Connector

CONSTANTS u1, u2

MCUploads == {u1, u2}
MCStored == [id \in MCUploads |->
  IF id = u1 THEN [name |-> "kept", data |-> "upload 1", size |-> 1]
  ELSE [name |-> "old", data |-> "upload 2", size |-> 2]]

MCShortened == [name \in {".", "dir/f"} |-> IF name = "." THEN "" ELSE "f"]

MCMaxFiles == 2
MCMaxBytes == 3

NoArgs == [k \in {} |-> 0]

In(front, op, path, body) ==
  [front |-> front, op |-> op, path |-> path, query |-> NoArgs, body |-> body, form |-> NoArgs,
   files |-> <<>>, items |-> <<>>]

(* Arguments that are enough for every operation.                          *)
Enough(op) == [k \in Required[op] |-> 1]

(* Every operation through both front ends, and without each argument it   *)
(* insists on.                                                             *)
Everything ==
  {In("tool", op, 0, Enough(op)) : op \in Op} \cup {In("tool", "no such tool", 0, NoArgs)}
  \cup {In("rest", op, 2, [k \in Required[op] \ PathParam(op) |-> 1]) : op \in Op}
  \cup {[In("rest", op, 2, NoArgs) EXCEPT !.query = [query |-> <<1>>]] : op \in Reading}
  \cup {In("rest", op, 0, Enough(op)) : op \in {"add_note", "send_draft"}}
  \cup UNION {{In("tool", op, 0, [j \in Required[op] \ {k} |-> 1]) : k \in Required[op]} : op \in Op}

(* Ids in the path, the query, the body and the form at once.              *)
Ids ==
  {[In("rest", op, 2, Over(more, Enough(op))) EXCEPT !.query = query, !.form = form] :
     op \in {"send_draft", "create_draft"},
     more \in {NoArgs, [ID |-> 1, DRAFT_ID |-> 1]},
     query \in {NoArgs, [id |-> <<1>>, draft_id |-> <<1>>]},
     form \in {NoArgs, [ID |-> <<1>>, DRAFT_ID |-> <<1>>], [id |-> <<1, 1>>]}}

(* Forms: one field, a field that is repeated, a list that is not one.     *)
Forms ==
  {[In("rest", "update_draft", 2, NoArgs) EXCEPT !.form = form] :
     form \in {NoArgs, [cc |-> <<0>>], [cc |-> <<1, 1>>], [body |-> <<0>>], [body |-> <<1>>],
               [subject |-> <<1, 1>>], [remove_attachment_ids |-> <<1>>],
               [remove_attachment_ids |-> <<1, 1>>]}}

Merges == {In(front, "merge_conversations", 2, [id |-> 2, merge_ids |-> n]) :
             front \in {"tool", "rest"}, n \in {0, 2, Bad}}

Forwards ==
  {[In("tool", "forward_conversation", 0, [id |-> 1, to |-> to, send |-> send]) EXCEPT !.items = items] :
     to \in {1, 2}, send \in {0, 1},
     items \in {<<>>, <<[name |-> "a", given |-> {"data"}, data |-> "A", size |-> 1, upload |-> None]>>}}

It(name, given, size, upload) ==
  [name |-> name, given |-> given, data |-> "inline", size |-> size, upload |-> upload]

Usable == {It("n", {"data"}, 2, None), It("w", {"url"}, 0, None), It("", {"upload"}, 0, u1),
         It("renamed", {"upload"}, 0, u2)}
Unusable == {It(".", {"data"}, 1, None), It("", {"data"}, 1, None), It("n", {}, 0, None), It("n", {"data", "url"}, 1, None),
          It("n", {"data"}, Bad, None), It("n", {"data"}, 0, None), It("n", {"data"}, 4, None)}

One == {<<>>} \cup {<<i>> : i \in Usable \cup Unusable}
Two == {<<i, j>> : i \in Usable, j \in {It("w", {"url"}, 0, None), It("", {"upload"}, 0, u1)}}
Three == {<<It("", {"upload"}, 0, u1), It("n", {"url"}, 0, None), It("n", {"url"}, 0, None)>>}

F(name, size) == [name |-> name, data |-> name, size |-> size]

Attachments ==
  {[In("rest", "create_draft", 1, [body |-> 1]) EXCEPT !.items = items, !.files = files] :
     items \in One,
     files \in {<<>>, <<F("f", 1)>>, <<F("g", 0)>>, <<F("f", 1), F("g", 2)>>, <<F("f", 2), F("g", 2)>>}}
  \cup {[In("rest", "create_draft", 1, [body |-> 1]) EXCEPT !.items = items] : items \in Two \cup Three}
  \cup {[In("rest", op, 1, Enough("create_new_draft")) EXCEPT !.files = <<F("dir/f", 1)>>] :
          op \in {"add_note", "merge_conversations", "update_draft", "create_new_draft", "reply_to_conversation"}}

Inputs == Everything \cup Ids \cup Forms \cup Merges \cup Forwards \cup Attachments
=============================================================================
