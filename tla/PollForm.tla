------------------------------ MODULE PollForm ------------------------------
(***************************************************************************)
(* The form that makes a poll (CreatePoll.jsx) and the checks of the same  *)
(* input in the backend (CreatePoll of poll_controller.go).                *)
(*                                                                         *)
(* A text is a word, or None, with what trim and toLowerCase remove.  Of a *)
(* question only the length matters: empty, short (less than 5 characters  *)
(* without the space around it), fine, or long (more than 500).            *)
(***************************************************************************)
EXTENDS OwnedPolls

CONSTANTS
    Words,       \* what a text can say
    Texts,       \* what can be typed for an option
    Defaults,    \* the options of a new form
    MinOptions, MaxOptions,
    MaxPosts     \* bound on the requests that are sent

Blank == [word |-> None, padded |-> FALSE, upper |-> FALSE]
Trim(t)  == [t EXCEPT !.padded = FALSE]
Lower(t) == [t EXCEPT !.upper = FALSE]

Text == [word : Words \union {None}, padded : BOOLEAN, upper : BOOLEAN]

ASSUME TextsAssumption == Texts \subseteq Text
ASSUME OptionsAssumption ==
    /\ MinOptions \in Nat /\ MaxOptions \in Nat /\ MaxPosts \in Nat
    /\ Defaults \in Seq(Text) /\ Len(Defaults) \in MinOptions..MaxOptions

VARIABLES
    form,        \* "off", "edit" or "created"
    question,    \* the length of the question
    options,     \* the texts of the options
    refused,     \* the form has an error
    busy,        \* loading: the button is disabled
    posts,       \* runs of handleSubmit that have not ended
    sent,        \* requests so far
    made,        \* history: polls made by this mount of the form
    lost         \* history: those whose reply was lost

formVars == <<form, question, options, refused, busy, posts, sent, made, lost>>

Lengths == {"empty", "short", "fine", "long"}

Fresh(f) ==
    /\ form' = f /\ question' = "empty" /\ options' = Defaults
    /\ refused' = FALSE /\ busy' = FALSE /\ made' = {} /\ lost' = {}

FormInit ==
    /\ form = "off" /\ question = "empty" /\ options = Defaults
    /\ refused = FALSE /\ busy = FALSE /\ posts = {} /\ sent = 0
    /\ made = {} /\ lost = {}

OpenForm ==
    /\ form = "off" /\ Fresh("edit")
    /\ UNCHANGED <<server, posts, sent>>

(* The replies of the requests on their way find no form.                  *)
LeaveForm ==
    /\ form # "off" /\ Fresh("off")
    /\ posts' = {[x EXCEPT !.mine = FALSE] : x \in posts}
    /\ UNCHANGED <<server, sent>>

-----------------------------------------------------------------------------
(* Typing.                                                                 *)

Edits(o) ==
    /\ form = "edit" /\ options' = o
    /\ UNCHANGED <<server, form, question, refused, busy, posts, sent, made, lost>>

AddOption == Len(options) < MaxOptions /\ Edits(Append(options, Blank))

(* Of the button and of the handler.                                       *)
Removable == Len(options) > MinOptions

RemoveOption(i) ==
    /\ Removable
    /\ Edits(SubSeq(options, 1, i - 1) \o SubSeq(options, i + 1, Len(options)))

ChangeOption(i, t) == Edits([options EXCEPT ![i] = t])

ChangeQuestion(q) ==
    /\ form = "edit" /\ question' = q
    /\ UNCHANGED <<server, form, options, refused, busy, posts, sent, made, lost>>

-----------------------------------------------------------------------------
(* Submitting.                                                             *)

(* The browser sends no form with an empty field that is required.         *)
Required == question # "empty" /\ \A i \in DOMAIN options : options[i] # Blank

NotBlank(t) == t.word # None

(* The map and the filter of handleSubmit, option by option.               *)
Kept(o) ==
    LET kept[i \in 0..Len(o)] ==
            IF i = 0 THEN <<>>
            ELSE IF NotBlank(Trim(o[i])) THEN Append(kept[i - 1], Trim(o[i]))
            ELSE kept[i - 1]
    IN  kept[Len(o)]

Sent == Kept(options)

(* A mistake: options are compared as they are written.                    *)
AsWritten(o) == \A i, j \in DOMAIN o : i # j => o[i] # o[j]

Unique(o) == \A i, j \in DOMAIN o : i # j => Lower(o[i]) # Lower(o[j])

Passes == question # "short" /\ Len(Sent) >= MinOptions /\ Unique(Sent)

(* A mistake: the button is not disabled.                                  *)
Always == form = "edit"

CanPost == form = "edit" /\ ~busy

Submit ==
    /\ CanPost /\ Required
    /\ IF ~Passes THEN refused' = TRUE /\ UNCHANGED <<busy, posts, sent>>
       ELSE /\ refused' = FALSE /\ busy' = TRUE
            /\ sent < MaxPosts /\ sent' = sent + 1
            /\ posts' = posts \union
                 {[id |-> sent', mine |-> TRUE, long |-> question = "long",
                   options |-> Sent, state |-> "sent", poll |-> None]}
    /\ UNCHANGED <<server, form, question, options, made, lost>>

(* CreatePoll in the backend, which checks everything again.               *)
Acceptable(o) ==
    /\ Len(o) \in MinOptions..MaxOptions
    /\ \A i \in DOMAIN o : NotBlank(Trim(o[i]))
    /\ \A i, j \in DOMAIN o : i # j => Lower(Trim(o[i])) # Lower(Trim(o[j]))

PostServed(x) ==
    /\ x.state = "sent" /\ ~x.long /\ Acceptable(x.options)
    /\ \E p \in Polls :
        /\ Insert(p)
        /\ posts' = (posts \ {x}) \union {[x EXCEPT !.state = "ok", !.poll = p]}
        /\ made' = IF x.mine THEN made \union {p} ELSE made
    /\ UNCHANGED <<form, question, options, refused, busy, sent, lost>>

(* The backend refuses the form, is not reached or fails.                  *)
PostFails(x) ==
    /\ x.state = "sent"
    /\ posts' = (posts \ {x}) \union {[x EXCEPT !.state = "failed"]}
    /\ UNCHANGED <<server, form, question, options, refused, busy, sent, made, lost>>

PostLost(x) ==
    /\ x.state = "ok"
    /\ posts' = (posts \ {x}) \union {[x EXCEPT !.state = "failed"]}
    /\ lost' = IF x.mine THEN lost \union {x.poll} ELSE lost
    /\ UNCHANGED <<server, form, question, options, refused, busy, sent, made>>

(* The rest of handleSubmit.                                               *)
PostEnds(x) ==
    /\ x.state # "sent"
    /\ posts' = posts \ {x}
    /\ IF ~x.mine THEN UNCHANGED <<form, refused, busy>>
       ELSE /\ busy' = FALSE
            /\ IF x.state = "ok" THEN form' = "created" /\ UNCHANGED refused
                                 ELSE refused' = TRUE /\ UNCHANGED form
    /\ UNCHANGED <<server, question, options, sent, made, lost>>

FormNext ==
    \/ OpenForm \/ LeaveForm \/ AddOption \/ Submit
    \/ \E i \in DOMAIN options : RemoveOption(i) \/ \E t \in Texts : ChangeOption(i, t)
    \/ \E q \in Lengths : ChangeQuestion(q)
    \/ \E x \in posts : PostServed(x) \/ PostFails(x) \/ PostLost(x) \/ PostEnds(x)

FormStart == StoredInit /\ FormInit

FormSpec == FormStart /\ [][FormNext]_<<server, formVars>>

-----------------------------------------------------------------------------
(* Properties.                                                             *)

Post == [id : 1..MaxPosts, mine : BOOLEAN, long : BOOLEAN,
         options : Seq(Text), state : {"sent", "ok", "failed"}, poll : Polls \union {None}]

(* Every variable has its type; no edit leaves the form with fewer options *)
(* than a poll needs or more than it may have.                             *)
FormTypeOK ==
    /\ form \in {"off", "edit", "created"} /\ question \in Lengths
    /\ options \in Seq(Text) /\ Len(options) \in MinOptions..MaxOptions
    /\ refused \in BOOLEAN /\ busy \in BOOLEAN
    /\ posts \subseteq Post /\ sent \in 0..MaxPosts
    /\ made \subseteq Polls /\ lost \subseteq Polls

(* The two lists of checks agree: whatever options the form sends, in any  *)
(* case and with any blanks, pass those of the backend, so that only the   *)
(* length of the question (which the form does not bound) is refused.      *)
SentIsAcceptable == \A x \in posts : Acceptable(x.options)

(* A mount of the form makes one poll however often it is submitted, and   *)
(* one more for every reply that was lost (the owner sees an error and     *)
(* submits again); the polls behind a form are the lost ones, and the page *)
(* that says "created" stands for one that is not.                         *)
OnePollPerForm ==
    /\ Cardinality(made) <= Cardinality(lost) + 1
    /\ form = "created" => Cardinality(made \ lost) = 1
    /\ form = "edit" /\ ~busy => made = lost
=============================================================================
