----------------------------- MODULE Translations -----------------------------
(***************************************************************************)
(* Machine translations of one record, a client's message or intake        *)
(* answers (crm/translations, crm/ai/translation.py, comms/sharing.py and  *)
(* the DeepL connector): a request of staff reads the record's texts,      *)
(* sends them to a translation service, in batches, or to an AI model, in  *)
(* one call, and replaces the translation there is in that language.       *)
(* Requests overlap, and the record's texts may grow meanwhile.            *)
(***************************************************************************)
EXTENDS Naturals, Sequences, FiniteSets, SequencesExt

CONSTANTS
    Languages,    \* languages staff translate into
    Spoken,       \* those the service offers
    Inquirers,    \* requests of staff
    TextVersions, \* what the record says, version by version: the sizes of its texts
    BatchTexts,   \* BATCH_TEXTS
    BatchSize,    \* BATCH_BYTES
    MaxInquiries  \* bound on the requests

ASSUME TranslationsAssumption ==
    /\ TextVersions \in Seq(Seq(Nat)) /\ TextVersions # << >>
    /\ BatchTexts \in Nat \ {0} /\ BatchSize \in Nat /\ MaxInquiries \in Nat
    /\ Spoken \subseteq Languages

VARIABLES
    version,      \* how often the record's texts have changed, from 1
    limited,      \* the record came through a connection that limits sharing
    inquiry,      \* each request of staff
    kept,         \* the translations kept beside the record
    inquiries,    \* requests so far
    read,         \* ghost: the latest version whose translation was kept, by language
    overlapped,   \* ghost: languages two requests were for at once
    dropped       \* ghost: languages whose request stopped, or met another, as it saved

translateVars == <<version, limited, inquiry, kept, inquiries, read, overlapped, dropped>>

NotAsking == [step |-> "idle", into |-> "none", of |-> 1, byAI |-> FALSE, left |-> << >>,
              got |-> << >>]
\* A text is known by its record's version and its place there.
TextsOf(v) == [i \in DOMAIN TextVersions[v] |-> <<v, i>>]
Size(text) == TextVersions[text[1]][text[2]]

TranslationsTypeOK ==
    /\ version \in DOMAIN TextVersions /\ limited \in BOOLEAN /\ inquiries \in 0..MaxInquiries
    /\ \A q \in Inquirers :
          /\ inquiry[q].step \in {"idle", "asking", "answered", "replacing"}
          /\ inquiry[q].into \in Languages \cup {"none"}
          /\ inquiry[q].of \in DOMAIN TextVersions
    /\ \A k \in kept : k.into \in Languages /\ k.of \in DOMAIN TextVersions
    /\ read \in [Languages -> 0..Len(TextVersions)]
    /\ overlapped \subseteq Languages /\ dropped \subseteq Languages

----------------------------------------------------------------------------
\* The total size of a batch
Bytes(batch) == FoldLeft(+, 0, [i \in DOMAIN batch |-> Size(batch[i])])

\* batches cuts where the batch is full or the next text has no room in it.
Cuts(texts) ==
    {n \in 1..Len(texts) : \/ n \in {BatchTexts, Len(texts)}
                           \/ Bytes(SubSeq(texts, 1, n)) + Size(texts[n + 1]) > BatchSize}

NextBatch(texts) == SubSeq(texts, 1, CHOOSE n \in Cuts(texts) : \A m \in Cuts(texts) : n <= m)

\* What the next call sends: a batch, or to an AI model all the texts as they are.
Sent(asked) == IF asked.byAI THEN asked.left ELSE NextBatch(asked.left)

\* translators: the services that speak the language, and with AI translation on, a model
Offered(language, byAI) == byAI \/ language \in Spoken

\* A repeat of a message, or a later part of a call, adds paragraphs to its text.
TextsGrow ==
    /\ version + 1 \in DOMAIN TextVersions
    /\ version' = version + 1
    /\ UNCHANGED <<limited, inquiry, kept, inquiries, read, overlapped, dropped>>

\* Someone who manages connections allows its messages to be shared, or stops that.
AllowSharing ==
    /\ limited' = ~limited
    /\ UNCHANGED <<version, inquiry, kept, inquiries, read, overlapped, dropped>>

InHandFor(language) == {q \in Inquirers : inquiry[q].into = language}

\* translate_communication and translate_submission, with a service or an AI connection that
\* the person may use: nothing is sent of a message that is withheld, or without texts.
AskFor(q, language, byAI) ==
    LET texts == TextsOf(version) IN
    /\ inquiry[q] = NotAsking /\ inquiries < MaxInquiries
    /\ ~limited /\ texts # << >>
    /\ Offered(language, byAI)
    /\ inquiries' = inquiries + 1
    /\ inquiry' = [inquiry EXCEPT ![q] =
           [step |-> "asking", into |-> language, of |-> version, byAI |-> byAI,
            left |-> texts, got |-> << >>]]
    /\ overlapped' = IF InHandFor(language) = {} THEN overlapped
                     ELSE overlapped \cup {language}
    /\ UNCHANGED <<version, limited, kept, read, dropped>>

\* One call: an answer for every text of the batch, in order.
Translate(q) ==
    LET asked == inquiry[q]
        sent == Sent(asked)
    IN
    /\ asked.step = "asking"
    /\ inquiry' = [inquiry EXCEPT
           ![q].left = SubSeq(@, Len(sent) + 1, Len(@)), ![q].got = @ \o sent,
           ![q].step = IF sent = asked.left THEN "answered" ELSE "asking"]
    /\ UNCHANGED <<version, limited, kept, inquiries, read, overlapped, dropped>>

\* Too long, in preview mode, refused, or an answer without a translation for every text:
\* staff are told why, and nothing is kept.
NotTranslated(q) ==
    /\ inquiry[q].step = "asking"
    /\ inquiry' = [inquiry EXCEPT ![q] = NotAsking]
    /\ UNCHANGED <<version, limited, kept, inquiries, read, overlapped, dropped>>

\* Slip: the earlier translations all go.
ReplacedAll(language) == kept

\* The translations a new one replaces
Replaced(language) == {k \in kept : k.into = language}

\* save deletes what there was, and then creates the new one.
DropEarlier(q) ==
    LET language == inquiry[q].into IN
    /\ inquiry[q].step = "answered"
    /\ kept' = kept \ Replaced(language)
    /\ inquiry' = [inquiry EXCEPT ![q].step = "replacing"]
    /\ dropped' = IF \E p \in InHandFor(language) : inquiry[p].step = "replacing"
                  THEN dropped \cup {language} ELSE dropped
    /\ UNCHANGED <<version, limited, inquiries, read, overlapped>>

KeepNew(q) ==
    LET done == inquiry[q] IN
    /\ done.step = "replacing"
    /\ kept' = kept \cup {[into |-> done.into, of |-> done.of, by |-> q,
                           content |-> [i \in DOMAIN TextVersions[done.of] |-> done.got[i]]]}
    /\ read' = [read EXCEPT ![done.into] = IF done.of > @ THEN done.of ELSE @]
    /\ inquiry' = [inquiry EXCEPT ![q] = NotAsking]
    /\ UNCHANGED <<version, limited, inquiries, overlapped, dropped>>

\* The request is cut off.
CutOff(q) ==
    /\ inquiry[q] # NotAsking
    /\ dropped' = IF inquiry[q].step = "replacing" THEN dropped \cup {inquiry[q].into}
                  ELSE dropped
    /\ inquiry' = [inquiry EXCEPT ![q] = NotAsking]
    /\ UNCHANGED <<version, limited, kept, inquiries, read, overlapped>>

----------------------------------------------------------------------------
TranslationsInit ==
    /\ version = 1 /\ limited = FALSE /\ inquiries = 0
    /\ inquiry = [q \in Inquirers |-> NotAsking]
    /\ kept = {} /\ read = [l \in Languages |-> 0]
    /\ overlapped = {} /\ dropped = {}

TranslationsNext ==
    \/ TextsGrow \/ AllowSharing
    \/ \E q \in Inquirers :
          \/ \E language \in Languages, byAI \in BOOLEAN : AskFor(q, language, byAI)
          \/ Translate(q) \/ NotTranslated(q) \/ DropEarlier(q) \/ KeepNew(q) \/ CutOff(q)

TranslationsSpec == TranslationsInit /\ [][TranslationsNext]_translateVars

----------------------------------------------------------------------------
Into(language) == {k \in kept : k.into = language}

\* A record has one translation into a language it was translated into, and loses it to
\* nothing but a newer one, unless two saves met or one was cut off (save deletes before it
\* creates, and nothing holds the two together).
OneEachLanguage ==
    \A l \in Languages \ dropped :
        /\ Cardinality(Into(l)) <= 1
        /\ read[l] > 0 => \/ Into(l) # {}
                          \/ \E q \in InHandFor(l) : inquiry[q].step = "replacing"

\* It is of the newest text that was ever translated into that language, unless two requests
\* were made for it at once: then the answer that came last stays, whatever it was read from.
NewestTranslated ==
    \A l \in Languages \ overlapped : \A k \in Into(l) : k.of = read[l]

\* Every text has its own translation, whatever the batches they were sent in.
LinedUp == \A k \in kept : k.content = TextsOf(k.of)

\* A translation is whole, the newest, and the only one in its language (services.py).
TranslationsKept == OneEachLanguage /\ NewestTranslated /\ LinedUp
=============================================================================
