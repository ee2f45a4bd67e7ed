\* Streams with positions (equal ones included) and CAIDs with and without a provider id for the persistence invariants.
\* Four stream kinds and an OTHER stream in compositions of up to four
\* streams; every action under AUDIO and CA rules in lists of up to two,
\* with and without an OTHER rule processed after CA.
CONSTANTS
  AUDIO = AUDIO
  CA = CA
  OTHER_ = OTHER_
  ANY = ANY
  c1 = c1
  c2 = c2
  Classes <- MCClasses
  CompChoices <- MCCompChoices
  RuleChoices <- MCRuleChoices
SPECIFICATION Spec
INVARIANT TypeOK
INVARIANT FilteredListWellFormed
INVARIANT ExclusiveAlone
INVARIANT FallbackExact
INVARIANT LoadRestoresSaved
INVARIANT LegacyCaidEquivalent
