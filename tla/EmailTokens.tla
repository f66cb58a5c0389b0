----------------------------- MODULE EmailTokens -----------------------------
(***************************************************************************)
(* The e-mail address of one customer account and the links that verify    *)
(* it: issueEmailVerification, verifyEmailByToken and                      *)
(* resendEmailVerification (modules/auth/services/                         *)
(* emailVerificationService.ts) and changeCustomerEmailController          *)
(* (controllers/authController.ts).                                        *)
(*                                                                         *)
(* Every call has its own copy of the User document, read when the request *)
(* was authenticated or the token looked up, and save writes the fields    *)
(* that the call changed in its copy.  A document from before there was    *)
(* the field emailVerified does not have it: Mongoose puts the default     *)
(* into the copy and the first save of that copy writes it.  Tokens are    *)
(* numbered as they are made; 0 is none.  A call may stop anywhere, as     *)
(* when it takes no further step.                                          *)
(***************************************************************************)
EXTENDS Integers, Sequences

CONSTANTS
  Addresses, \* e-mail addresses, all of this customer
  Resends,   \* calls of POST /auth/resend-verification
  Changes,   \* calls of PATCH /auth/customer-email
  Opens,     \* links that are opened: calls of /auth/verify-email
  Others,    \* calls that save the account for another reason: profile, login, ...
  Faults     \* what may go wrong, out of {"mail"}: a mail is not sent

Issuers == Resends \cup Changes
EmailCalls == Issuers \cup Opens \cup Others

ASSUME EmailTokensAssumption ==
  /\ Resends \cap Changes = {}
  /\ Issuers \cap Opens = {}
  /\ Others \cap (Issuers \cup Opens) = {}
  /\ Faults \subseteq {"mail"}

VARIABLES
  email,    \* User.email
  verified, \* User.emailVerified, FALSE when the document does not have it
  stored,   \* the document has it
  token,    \* the token of User.emailVerificationTokenHash
  expired,  \* whether emailVerificationExpiresAt has passed
  minted,   \* how many tokens were made
  mails,    \* the mails with links, as they were sent: to whom, which token
  at,       \* at[c]: what call c does next, or how it ended
  copy,     \* copy[c]: what call c has read, and the token it made
  \* history
  proven,   \* addresses where a link was opened that was sent there
  crossed   \* what went on at once, or went wrong

emailVars ==
  <<email, verified, stored, token, expired, minted, mails, at, copy, proven, crossed>>

Ended == {"done", "rejected"}
Go(c, label) == at' = [at EXCEPT ![c] = label]
UnderWay(S) == {c \in S : at[c] \notin Ended \cup {"new"}}

\* The copy of a call that reads the document of somebody with that address.
Seen(address, link) ==
  [email |-> address, verified |-> verified, stored |-> stored, token |-> link]

\* And that copy once it has been saved.
Saved(address, value, link) ==
  [email |-> address, verified |-> value, stored |-> TRUE, token |-> link]

\* save of copy c when the call sets emailVerified to value, or does not (that
\* is, to what the copy has): only a change is written, or the default.
Write(c, value) ==
  /\ verified' = IF copy[c].stored /\ copy[c].verified = value THEN verified ELSE value
  /\ stored' = TRUE

Cross(what, when) == crossed' = IF when THEN crossed \cup {what} ELSE crossed
-----------------------------------------------------------------------------
\* A customer has registered, and has been sent a link or not; or did so before
\* there were links.
EmailInit ==
  /\ email \in Addresses
  /\ verified = FALSE
  /\ stored \in BOOLEAN
  /\ token \in {0, 1} /\ minted = token
  /\ token = 1 => stored
  /\ expired = FALSE
  /\ mails = IF token = 0 THEN << >> ELSE <<[to |-> email, token |-> 1]>>
  /\ at = [c \in EmailCalls |-> "new"]
  /\ copy = [c \in EmailCalls |-> Seen(email, 0)]
  /\ proven = {} /\ crossed = {}

\* authenticate: User.findById, and the guards of both controllers.
MutRead(c) ==
  /\ at[c] = "new"
  /\ copy' = [copy EXCEPT ![c] = Seen(email, 0)]
  /\ Go(c, IF c \in Changes THEN "email" ELSE "issue")
  /\ crossed' = crossed \cup (IF UnderWay(Issuers) # {} THEN {"issues"} ELSE {})
       \cup (IF UnderWay(IF c \in Changes THEN Issuers ELSE Changes) # {}
             THEN {"change"} ELSE {})
  /\ UNCHANGED <<email, verified, stored, token, expired, minted, mails, proven>>
Read(c) ==
  /\ at[c] = "new"
  /\ copy' = [copy EXCEPT ![c] = Seen(email, 0)]
  /\ Go(c, IF verified THEN "rejected" ELSE IF c \in Changes THEN "email" ELSE "issue")
  /\ crossed' = crossed \cup (IF UnderWay(Issuers) # {} THEN {"issues"} ELSE {})
       \cup (IF UnderWay(IF c \in Changes THEN Issuers ELSE Changes) # {}
             THEN {"change"} ELSE {})
  /\ UNCHANGED <<email, verified, stored, token, expired, minted, mails, proven>>

\* changeCustomerEmailController: user.email = newEmail; user.save(), unless
\* another account has it.
SaveEmail(c) ==
  /\ at[c] = "email"
  /\ \/ /\ \E address \in Addresses :
             /\ copy' = [copy EXCEPT ![c] = Saved(address, copy[c].verified, 0)]
             /\ email' = IF address = copy[c].email THEN email ELSE address
        /\ Write(c, copy[c].verified)
        /\ Go(c, "issue")
        /\ Cross("link", UnderWay(Opens) # {})
     \/ Go(c, "rejected") /\ UNCHANGED <<email, verified, stored, copy, crossed>>
  /\ UNCHANGED <<token, expired, minted, mails, proven>>

\* issueEmailVerification saves a new token and emailVerified = false.
MutKeepToken(c) ==
  /\ at[c] = "issue"
  /\ minted' = minted + 1
  /\ token' = IF token = 0 THEN minted' ELSE token
  /\ expired' = FALSE
  /\ Write(c, FALSE)
  /\ copy' = [copy EXCEPT ![c] = Saved(copy[c].email, FALSE, minted')]
  /\ Go(c, "mail")
  /\ UNCHANGED <<email, mails, proven, crossed>>
SaveToken(c) ==
  /\ at[c] = "issue"
  /\ minted' = minted + 1
  /\ token' = minted'
  /\ expired' = FALSE
  /\ Write(c, FALSE)
  /\ copy' = [copy EXCEPT ![c] = Saved(copy[c].email, FALSE, minted')]
  /\ Go(c, "mail")
  /\ UNCHANGED <<email, mails, proven, crossed>>

\* sendMail, twice if need be, to the address of the copy.
SendMail(c) ==
  /\ at[c] = "mail"
  /\ \/ /\ mails' = Append(mails, [to |-> copy[c].email, token |-> copy[c].token])
        /\ UNCHANGED crossed
     \/ "mail" \in Faults /\ UNCHANGED mails /\ Cross("mail", TRUE)
  /\ Go(c, "done")
  /\ UNCHANGED <<email, verified, stored, token, expired, minted, copy, proven>>

\* verifyEmailByToken finds the account of the link that the customer opens.
MutFindToken(c) ==
  /\ at[c] = "new"
  /\ \E i \in DOMAIN mails :
       /\ copy' = [copy EXCEPT ![c] = Seen(mails[i].to, mails[i].token)]
       /\ Go(c, IF ~ expired THEN "verify" ELSE "rejected")
  /\ Cross("link", \E g \in Changes : at[g] = "issue")
  /\ UNCHANGED <<email, verified, stored, token, expired, minted, mails, proven>>
FindToken(c) ==
  /\ at[c] = "new"
  /\ \E i \in DOMAIN mails :
       /\ copy' = [copy EXCEPT ![c] = Seen(mails[i].to, mails[i].token)]
       /\ Go(c, IF mails[i].token = token /\ ~ expired THEN "verify" ELSE "rejected")
  /\ Cross("link", \E g \in Changes : at[g] = "issue")
  /\ UNCHANGED <<email, verified, stored, token, expired, minted, mails, proven>>

\* emailVerified = true and no token any more, whatever the account has now.
SaveVerified(c) ==
  /\ at[c] = "verify"
  /\ Write(c, TRUE)
  /\ token' = 0
  /\ expired' = FALSE
  /\ proven' = proven \cup {copy[c].email}
  /\ Go(c, "done")
  /\ Cross("link", \E g \in Changes : at[g] = "email")
  /\ UNCHANGED <<email, minted, mails, copy>>

\* A call that is about something else reads the account, and saves it with what it
\* changes there.
Load(c) ==
  /\ at[c] = "new"
  /\ copy' = [copy EXCEPT ![c] = Seen(email, 0)]
  /\ Go(c, "save")
  /\ UNCHANGED <<email, verified, stored, token, expired, minted, mails, proven, crossed>>
SaveOther(c) ==
  /\ at[c] = "save"
  /\ Write(c, copy[c].verified)
  /\ Go(c, "done")
  /\ Cross("save", verified /\ ~ copy[c].stored)
  /\ UNCHANGED <<email, token, expired, minted, mails, copy, proven>>

\* A day goes by.
Expire ==
  /\ token # 0
  /\ expired' = TRUE
  /\ UNCHANGED <<email, verified, stored, token, minted, mails, at, copy>>
  /\ UNCHANGED <<proven, crossed>>

Issue(c) == Read(c) \/ SaveToken(c) \/ SendMail(c)
Open(c) == FindToken(c) \/ SaveVerified(c)

EmailNext ==
  \/ \E c \in Issuers : Issue(c)
  \/ \E c \in Changes : SaveEmail(c)
  \/ \E c \in Opens : Open(c)
  \/ \E c \in Others : Load(c) \/ SaveOther(c)
  \/ Expire

EmailSpec == EmailInit /\ [][EmailNext]_emailVars
-----------------------------------------------------------------------------
(* Properties *)

\* Type correctness.
EmailTypeOK ==
  /\ email \in Addresses
  /\ verified \in BOOLEAN /\ stored \in BOOLEAN /\ expired \in BOOLEAN
  /\ minted \in Nat /\ token \in 0..minted
  /\ mails \in Seq([to : Addresses, token : 1..minted])
  /\ at \in [EmailCalls -> Ended \cup {"new", "email", "issue", "mail", "verify", "save"}]
  /\ copy \in [EmailCalls -> [email : Addresses, verified : BOOLEAN, stored : BOOLEAN,
                            token : 0..minted]]
  /\ proven \subseteq Addresses
  /\ crossed \subseteq {"issues", "change", "link", "mail", "save"}

\* The address of a verified account is one where its customer opened a link,
\* unless a link was opened in the midst of a change of the address, whose two
\* writes replace first the address and then its token; or another link was
\* issued in the midst of it, and mailed to the old address.
VerifiedIsProven ==
  verified => email \in proven \/ crossed \cap {"link", "change"} # {}

\* Verified stays verified, although every resend and change says emailVerified
\* = false of a copy that may be older than the link that was opened, and saves
\* of other copies go on: unless the one that saves read the document before it
\* had the field.
StaysVerified ==
  [][verified => verified' \/ \E c \in UnderWay(Issuers \cup Others) :
                               ~ copy[c].stored /\ at'[c] # at[c]]_emailVars

\* When nothing is under way, the last link that was mailed to an unverified
\* customer works, at least for a day, unless links were issued at once, the mail
\* with a newer one was not sent, or a verification was undone.
LastLinkWorks ==
  (UnderWay(EmailCalls) = {} /\ ~ verified /\ mails # << >>) =>
    \/ mails[Len(mails)].token = token
    \/ crossed \cap {"issues", "mail", "save"} # {}
-----------------------------------------------------------------------------
(* Why the properties hold: the parts of an inductive invariant *)

EmailLabels ==
  /\ \A c \in Issuers : at[c] \in Ended \cup {"new", "issue", "mail"}
                                \cup (IF c \in Changes THEN {"email"} ELSE {})
  /\ \A c \in Opens : at[c] \in Ended \cup {"new", "verify"}
  /\ \A c \in Others : at[c] \in Ended \cup {"new", "save"}
  /\ \A c \in Issuers : at[c] = "mail" => copy[c].token # 0

\* A change of the address that crossed with no other call is the only issuer
\* under way, and who is about to mail a link knows the address.
ChangesAlone ==
  "change" \notin crossed =>
    /\ \A g \in UnderWay(Changes) : UnderWay(Issuers) = {g}
    /\ \A c \in UnderWay(Issuers) : copy[c].email = email

\* The link that is valid was mailed to the address of the account, but for the
\* time between the two writes of a change; and who has opened it, opened it there.
LinkIsOurs ==
  crossed \cap {"link", "change"} = {} =>
    /\ (\A g \in Changes : at[g] # "issue") =>
         \A i \in DOMAIN mails : mails[i].token = token => mails[i].to = email
    /\ \A o \in Opens : at[o] = "verify" => copy[o].email = email
    /\ verified => \A g \in Changes : at[g] # "email"

\* One issuer at a time leaves the token it mails, or has mailed, behind.
OneIssuer == "issues" \notin crossed => \A c, d \in UnderWay(Issuers) : c = d
LastTokenMailed ==
  (crossed \cap {"issues", "mail", "save"} = {} /\ ~ verified) =>
    /\ \A c \in Issuers : at[c] = "mail" => copy[c].token = token
    /\ (\A c \in Issuers : at[c] # "mail") /\ mails # << >> =>
         mails[Len(mails)].token = token

\* Who is about to issue a link has read an account that was not verified, and so
\* has who read one without the field.
ReadUnverified ==
  /\ \A c \in Issuers : at[c] \in {"email", "issue"} => ~ copy[c].verified
  /\ \A c \in Others : ~ copy[c].stored => ~ copy[c].verified

\* As long as the document does not have the field, no link has been issued; nor,
\* if links are issued one at a time, while somebody is about to who read it so.
NoLinkYet ==
  /\ ~ verified /\ mails = << >>
  /\ \A c \in Issuers : at[c] # "mail"
  /\ \A o \in Opens : at[o] # "verify"
NotSavedYet ==
  /\ ~ stored => NoLinkYet
  /\ "issues" \notin crossed =>
       \A c \in UnderWay(Issuers) : ~ copy[c].stored => NoLinkYet
  /\ crossed \cap {"issues", "save"} = {} =>
       \A o \in Opens : at[o] = "verify" /\ copy[o].verified => verified

TokensInv ==
  /\ EmailTypeOK /\ EmailLabels /\ ReadUnverified /\ NotSavedYet
  /\ ChangesAlone /\ OneIssuer /\ LinkIsOurs /\ LastTokenMailed /\ VerifiedIsProven
=============================================================================
