-------------------------- MODULE ErrorFlowProofs --------------------------
(***************************************************************************)
(* Wrapping, for chains of any length: TLC bounds them by MaxChain, the    *)
(* theorems hold whatever MaxChain is.                                     *)
(***************************************************************************)
EXTENDS ErrorFlow, SequenceTheorems, WellFoundedInduction, TLAPS

\* An error is a chain with at least one member.
Names == IndexerErrorNames \cup {"standard"}
Chains == Seq(Names) \ {<<>>}
ChainInv == err = Panic \/ err \in Chains

\* A set of naturals that is not empty has a least member.
LEMMA LeastNatural ==
    ASSUME NEW S \in SUBSET Nat, S # {}
    PROVE  \E n \in S : \A m \in S : n <= m
<1> DEFINE R == {ss \in Nat \X Nat : ss[1] < ss[2]}
<1>1. IsWellFoundedOn(R, Nat)
  BY NatLessThanWellFounded DEF OpToRel
<1> HIDE DEF R
<1>2. PICK n \in S : \A m \in S : ~ (<<m, n>> \in R)
  BY <1>1, WFMin
<1>3. \A m \in S : ~ (m < n)
  BY <1>2 DEF R
<1> QED
  BY <1>3

\* A sequence with one more member in front.
LEMMA InFront ==
    ASSUME NEW S, NEW c \in S, NEW e \in Seq(S)
    PROVE  /\ <<c>> \o e \in Seq(S)
           /\ DOMAIN (<<c>> \o e) = 1..Len(e) + 1
           /\ (<<c>> \o e)[1] = c
           /\ \A n \in 1..Len(e) : (<<c>> \o e)[n + 1] = e[n]
<1>1. <<c>> \in Seq(S) /\ Len(<<c>>) = 1 /\ <<c>>[1] = c
  OBVIOUS
<1> QED
  BY <1>1, ConcatProperties, LenProperties

\* What a constructor or fmt.Errorf puts in front leaves the rest one lower.
LEMMA Prefixed ==
    ASSUME NEW e \in Chains, NEW c \in Names
    PROVE  /\ <<c>> \o e \in Chains
           /\ (<<c>> \o e)[1] = c
           /\ \A n \in Indexed(e) :
                 n + 1 \in Indexed(<<c>> \o e) /\ (<<c>> \o e)[n + 1] = e[n]
<1> DEFINE w == <<c>> \o e
<1>1. e \in Seq(Names) /\ Len(e) \in Nat /\ DOMAIN e = 1..Len(e)
  BY LenProperties DEF Chains
<1>2. /\ w \in Seq(Names)
      /\ DOMAIN w = 1..Len(e) + 1
      /\ w[1] = c
      /\ \A n \in 1..Len(e) : w[n + 1] = e[n]
  BY <1>1, InFront
<1> HIDE DEF w
<1>3. w # <<>>
  BY <1>1, <1>2
<1>4. ASSUME NEW n \in Indexed(e)
      PROVE  n + 1 \in Indexed(w) /\ w[n + 1] = e[n]
  BY <1>1, <1>2 DEF Indexed
<1> QED
  BY <1>2, <1>3, <1>4 DEF w, Chains

\* The member the predicates look at.
LEMMA FirstIndexed ==
    ASSUME NEW e \in Chains, IsIndexerError(e)
    PROVE  \E n \in Indexed(e) :
              /\ \A m \in Indexed(e) : n <= m
              /\ n = CHOOSE l \in Indexed(e) : \A m \in Indexed(e) : l <= m
<1>1. Indexed(e) \in SUBSET Nat /\ Indexed(e) # {}
  BY DEF Indexed, IsIndexerError, Chains
<1>2. PICK n \in Indexed(e) : \A m \in Indexed(e) : n <= m
  BY <1>1, LeastNatural
<1> QED
  BY <1>2

\* WrapError cuts off what lies above the outermost IndexerError.
LEMMA Cut ==
    ASSUME NEW e \in Chains, IsIndexerError(e)
    PROVE  \E n \in Indexed(e) :
              /\ \A m \in Indexed(e) : n <= m
              /\ Outermost(e) = Constructors[e[n]]
              /\ WrapError(e) \in Chains
              /\ DOMAIN WrapError(e) = 1..Len(e) - n + 1
              /\ \A l \in 1..Len(e) - n + 1 : WrapError(e)[l] = e[n + l - 1]
<1>1. PICK n \in Indexed(e) :
          /\ \A m \in Indexed(e) : n <= m
          /\ n = CHOOSE l \in Indexed(e) : \A m \in Indexed(e) : l <= m
  BY FirstIndexed
<1>2. n \in 1..Len(e) /\ Len(e) \in Nat
  BY <1>1 DEF Indexed, Chains
<1>3. WrapError(e) = SubSeq(e, n, Len(e))
  BY <1>1 DEF WrapError
<1>4. \A l \in n..Len(e) : e[l] \in Names
  BY <1>2 DEF Chains
<1>5. /\ WrapError(e) \in Seq(Names)
      /\ Len(WrapError(e)) = Len(e) - n + 1
      /\ \A l \in 1..Len(e) - n + 1 : WrapError(e)[l] = e[n + l - 1]
  BY <1>2, <1>3, <1>4, SubSeqProperties
<1>6. Outermost(e) = Constructors[e[n]]
  BY <1>1 DEF Outermost
<1>7. /\ DOMAIN WrapError(e) = 1..Len(e) - n + 1
      /\ WrapError(e) \in Chains
  BY <1>2, <1>5, LenProperties, EmptySeq DEF Chains
<1> QED
  BY <1>1, <1>5, <1>6, <1>7

LEMMA Singletons ==
    ASSUME NEW c \in Names
    PROVE  <<c>> \in Chains
BY DEF Chains

\* What a constructor makes is a chain, whether it keeps the error or not.
LEMMA ConstructedChain ==
    ASSUME NEW e \in Chains, NEW c \in IndexerErrorNames
    PROVE  Constructed(c, e) \in Chains
<1>1. c \in Names
  BY DEF Names
<1>2. CASE c \in Causeless
  BY <1>1, <1>2, Singletons DEF Constructed
<1>3. CASE c \notin Causeless
  BY <1>1, <1>3, Prefixed DEF Constructed
<1> QED
  BY <1>2, <1>3

\* Every step leaves a chain, or ends in the panic.
LEMMA TypeStep ==
    ASSUME ChainInv, [Next]_vars
    PROVE  ChainInv'
<1>1. ASSUME NEW c \in IndexerErrorNames, Construct(c)
      PROVE  ChainInv'
  BY <1>1, ConstructedChain DEF Construct, ChainInv
<1>2. CASE Errorf
  BY <1>2, Prefixed DEF Names, Errorf, ChainInv
<1>3. CASE Wrap
  <2>1. CASE IsIndexerError(err)
    BY <1>3, <2>1, Cut DEF Wrap, ChainInv
  <2>2. CASE ~ IsIndexerError(err)
    BY <1>3, <2>2 DEF Wrap, WrapError, ChainInv
  <2> QED
    BY <2>1, <2>2
<1>4. CASE LogError
  BY <1>4 DEF LogError, ChainInv
<1>5. ASSUME NEW site \in DOMAIN Sites, Report(site)
      PROVE  ChainInv'
  BY <1>5 DEF Report, ChainInv
<1>6. CASE UNCHANGED vars
  BY <1>6 DEF vars, ChainInv
<1> QED
  BY <1>1, <1>2, <1>3, <1>4, <1>5, <1>6 DEF Next

\* The error on its way up is a chain of known errors, of any length.
THEOREM ChainInvariant == Spec => []ChainInv
<1>1. Init => ChainInv
  BY Singletons DEF Init, ChainInv, Names
<1> QED
  BY <1>1, TypeStep, PTL DEF Spec

-----------------------------------------------------------------------------
\* Putting a member in front, or cutting off what is no IndexerError, keeps
\* every class the chain has.
LEMMA ClassInFront ==
    ASSUME NEW e \in Chains, NEW c \in Names, NEW class, HasClass(e, class)
    PROVE  HasClass(<<c>> \o e, class)
<1>1. PICK n \in Indexed(e) : Constructors[e[n]].class = class
  BY DEF HasClass
<1>2. n + 1 \in Indexed(<<c>> \o e) /\ (<<c>> \o e)[n + 1] = e[n]
  BY Prefixed
<1> QED
  BY <1>1, <1>2 DEF HasClass

LEMMA ClassBelowCut ==
    ASSUME NEW e \in Chains, IsIndexerError(e), NEW class,
           HasClass(e, class)
    PROVE  HasClass(WrapError(e), class)
<1>1. PICK n \in Indexed(e) :
          /\ \A m \in Indexed(e) : n <= m
          /\ DOMAIN WrapError(e) = 1..Len(e) - n + 1
          /\ \A l \in 1..Len(e) - n + 1 : WrapError(e)[l] = e[n + l - 1]
  BY Cut
<1>2. PICK m \in Indexed(e) : Constructors[e[m]].class = class
  BY DEF HasClass
<1>3. DOMAIN e = 1..Len(e) /\ Len(e) \in Nat
  BY LenProperties DEF Chains
<1>4. n \in 1..Len(e) /\ m \in n..Len(e) /\ e[m] \in IndexerErrorNames
  BY <1>1, <1>2, <1>3 DEF Indexed
<1>5. m - n + 1 \in 1..Len(e) - n + 1 /\ WrapError(e)[m - n + 1] = e[m]
  BY <1>1, <1>3, <1>4
<1>6. m - n + 1 \in Indexed(WrapError(e))
  BY <1>1, <1>4, <1>5 DEF Indexed
<1> QED
  BY <1>2, <1>5, <1>6 DEF HasClass

\* And the other way round: what is cut off has no class.
LEMMA ClassAboveCut ==
    ASSUME NEW e \in Chains, IsIndexerError(e), NEW class,
           HasClass(WrapError(e), class)
    PROVE  HasClass(e, class)
<1>1. PICK n \in Indexed(e) :
          /\ DOMAIN WrapError(e) = 1..Len(e) - n + 1
          /\ \A l \in 1..Len(e) - n + 1 : WrapError(e)[l] = e[n + l - 1]
  BY Cut
<1>2. PICK m \in Indexed(WrapError(e)) :
          Constructors[WrapError(e)[m]].class = class
  BY DEF HasClass
<1>3. DOMAIN e = 1..Len(e) /\ Len(e) \in Nat
  BY LenProperties DEF Chains
<1>4. n \in 1..Len(e) /\ m \in 1..Len(e) - n + 1
      /\ WrapError(e)[m] \in IndexerErrorNames
  BY <1>1, <1>2, <1>3 DEF Indexed
<1>5. n + m - 1 \in 1..Len(e) /\ WrapError(e)[m] = e[n + m - 1]
  BY <1>1, <1>3, <1>4
<1>6. n + m - 1 \in Indexed(e)
  BY <1>3, <1>4, <1>5 DEF Indexed
<1> QED
  BY <1>2, <1>5, <1>6 DEF HasClass

\* What WrapError returns has its IndexerError on top, and the same one.
LEMMA CutTwice ==
    ASSUME NEW e \in Chains, IsIndexerError(e)
    PROVE  /\ WrapError(e)[1] \in IndexerErrorNames
           /\ IsIndexerError(WrapError(e))
           /\ Outermost(WrapError(e)) = Outermost(e)
           /\ WrapError(WrapError(e))[1] = WrapError(e)[1]
<1> DEFINE w == WrapError(e)
<1>1. PICK n \in Indexed(e) :
          /\ Outermost(e) = Constructors[e[n]]
          /\ w \in Chains
          /\ DOMAIN w = 1..Len(e) - n + 1
          /\ \A l \in 1..Len(e) - n + 1 : w[l] = e[n + l - 1]
  BY Cut
<1>2. n \in 1..Len(e) /\ Len(e) \in Nat /\ e[n] \in IndexerErrorNames
  BY LenProperties DEF Indexed, Chains
<1>3. 1 \in DOMAIN w /\ w[1] = e[n]
  BY <1>1, <1>2
<1>4. 1 \in Indexed(w) /\ IsIndexerError(w)
  BY <1>2, <1>3 DEF Indexed, IsIndexerError
<1> HIDE DEF w
<1>5. PICK m \in Indexed(w) :
          /\ \A l \in Indexed(w) : m <= l
          /\ Outermost(w) = Constructors[w[m]]
          /\ \A l \in 1..Len(w) - m + 1 : WrapError(w)[l] = w[m + l - 1]
  BY <1>1, <1>4, Cut
<1>6. m \in 1..Len(w) /\ Len(w) \in Nat
  BY <1>1, LenProperties DEF Indexed, Chains
<1>7. m = 1
  BY <1>4, <1>5, <1>6
<1>8. WrapError(w)[1] = w[1]
  BY <1>5, <1>6, <1>7
<1> QED
  BY <1>1, <1>2, <1>3, <1>4, <1>5, <1>7, <1>8 DEF w

LEMMA VerdictKept ==
    ASSUME NEW e \in Chains, IsIndexerError(e)
    PROVE  Verdict(WrapError(e)) = Verdict(e)
<1> DEFINE w == WrapError(e)
<1>1. /\ IsIndexerError(w)
      /\ Outermost(w) = Outermost(e)
      /\ WrapError(w)[1] = w[1]
  BY CutTwice
<1>2. \A class : HasClass(w, class) = HasClass(e, class)
  <2>1. \A class : HasClass(w, class) <=> HasClass(e, class)
    BY ClassBelowCut, ClassAboveCut
  <2> QED
    BY <2>1 DEF HasClass
<1>3. /\ GetErrorCode(w) = GetErrorCode(e)
      /\ IsRetryable(w) = IsRetryable(e)
      /\ IsRetryableWithBackoff(w) = IsRetryableWithBackoff(e)
      /\ IsCritical(w) = IsCritical(e)
  BY <1>1 DEF GetErrorCode, IsRetryable, IsRetryableWithBackoff, IsCritical
<1>4. /\ IsNetworkError(w) = IsNetworkError(e)
      /\ IsDataError(w) = IsDataError(e)
      /\ IsStorageError(w) = IsStorageError(e)
  BY <1>2 DEF IsNetworkError, IsDataError, IsStorageError
<1> QED
  BY <1>3, <1>4 DEF Verdict

\* For chains of any length: WrapError changes nothing a caller decides by
\* where there is an IndexerError, and panics exactly where there is none.
THEOREM VerdictAlwaysKept == Spec => WrapErrorKeepsVerdict
<1> DEFINE Kept == IF IsIndexerError(err)
                   THEN /\ err' # Panic
                        /\ err'[1] \in IndexerErrorNames
                        /\ Verdict(err') = Verdict(err)
                   ELSE err' = Panic
<1>1. ChainInv /\ [Next]_vars => [Wrap => Kept]_vars
  <2> SUFFICES ASSUME ChainInv, Wrap
               PROVE  Kept
    OBVIOUS
  <2>1. err \in Chains /\ err' = WrapError(err)
    BY DEF ChainInv, Wrap
  <2>2. CASE IsIndexerError(err)
    <3>1. err' \in Chains
      BY <2>1, <2>2, Cut
    <3> QED
      BY <2>1, <2>2, <3>1, CutTwice, VerdictKept DEF Chains, Panic
  <2>3. CASE ~ IsIndexerError(err)
    BY <2>1, <2>3 DEF WrapError
  <2> QED
    BY <2>2, <2>3
<1> QED
  BY <1>1, ChainInvariant, PTL DEF Spec, WrapErrorKeepsVerdict

\* For chains of any length: no layer hides the class of what it wraps, but
\* for NewDocumentNotFound, which takes no error to wrap.
THEOREM ClassesAlwaysStick == Spec => ClassesStick
<1>1. ASSUME ChainInv, [Next]_vars, err' # <<"DocumentNotFound">>,
             NEW class, HasClass(err, class)
      PROVE  HasClass(err', class)
  <2>1. IsIndexerError(err)
    BY <1>1 DEF HasClass, IsIndexerError
  <2>2. err \in Chains
    <3>1. ~ IsIndexerError(Panic)
      BY DEF IsIndexerError, Indexed, Panic
    <3> QED
      BY <1>1, <2>1, <3>1 DEF ChainInv
  <2>3. ASSUME NEW c \in IndexerErrorNames, Construct(c)
        PROVE  HasClass(err', class)
    <3>1. c \in Names
      BY DEF Names
    <3>2. err' = <<c>> \o err
      BY <1>1, <2>3 DEF Construct, Constructed, Causeless
    <3> QED
      BY <1>1, <2>2, <3>1, <3>2, ClassInFront
  <2>4. CASE Errorf
    BY <1>1, <2>2, <2>4, ClassInFront DEF Names, Errorf
  <2>5. CASE Wrap
    BY <1>1, <2>1, <2>2, <2>5, ClassBelowCut DEF Wrap
  <2>6. CASE UNCHANGED err
    BY <1>1, <2>6
  <2> QED
    BY <1>1, <2>3, <2>4, <2>5, <2>6 DEF Next, vars, LogError, Report
<1>2. ChainInv /\ [Next]_vars =>
        (err' # <<"DocumentNotFound">> =>
           /\ IsDataError(err) => IsDataError(err')
           /\ IsNetworkError(err) => IsNetworkError(err')
           /\ IsStorageError(err) => IsStorageError(err'))
  BY <1>1 DEF IsDataError, IsNetworkError, IsStorageError
<1> QED
  BY <1>2, ChainInvariant, PTL DEF Spec, ClassesStick

-----------------------------------------------------------------------------
\* A line tells of the error still in hand.
LineInv ==
    \/ line = <<>>
    \/ line = <<"LogError", LogErrorLevel(err)>>
    \/ \E site \in DOMAIN Sites :
          err \in SiteErrors(site) /\ line = <<site, Sites[site]>>

\* For chains of any length: only warnings stay out of the error file.
THEOREM ErrorsAlwaysReachTheErrorFile == Spec => []ErrorsReachTheErrorFile
<1>1. Init => LineInv
  BY DEF Init, LineInv
<1>2. LineInv /\ [Next]_vars => LineInv'
  BY DEF LineInv, Next, vars, Construct, Errorf, Wrap, LogError, Report
<1>3. ASSUME LineInv
      PROVE  ErrorsReachTheErrorFile
  <2>1. CASE line = <<"LogError", LogErrorLevel(err)>>
    BY <2>1
       DEF ErrorsReachTheErrorFile, LogErrorLevel, LevelOf, Constructors,
           ErrorKind, IndexerErrorNames
  <2>2. ASSUME NEW site \in DOMAIN Sites, err \in SiteErrors(site),
               line = <<site, Sites[site]>>
        PROVE  ErrorsReachTheErrorFile
    <3>1. CASE site \in {"GetNetworkID", "GetTransactionReceipt",
                         "GetLatestBlock"}
      <4>1. \A n \in DOMAIN err : err[n] = "standard"
        BY <2>2, <3>1 DEF SiteErrors
      <4>2. "standard" \notin IndexerErrorNames
        BY DEF IndexerErrorNames, Constructors
      <4>3. ~ IsIndexerError(err)
        BY <4>1, <4>2 DEF IsIndexerError, Indexed
      <4> QED
        BY <2>2, <3>1, <4>3 DEF ErrorsReachTheErrorFile, Sites
    <3>2. CASE site \notin {"GetNetworkID", "GetTransactionReceipt",
                            "GetLatestBlock"}
      BY <2>2, <3>2 DEF ErrorsReachTheErrorFile, Sites
    <3> QED
      BY <3>1, <3>2
  <2> QED
    BY <1>3, <2>1, <2>2 DEF LineInv, ErrorsReachTheErrorFile
<1> QED
  BY <1>1, <1>2, <1>3, PTL DEF Spec
=============================================================================
