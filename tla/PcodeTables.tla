---------------------------- MODULE PcodeTables ----------------------------
(***************************************************************************)
(* The tables of src/src/vb6_tables.c: for every opcode of the VB6 machine *)
(* its mnemonic and its length.  A table is written as the runs of entries *)
(* it defines, each with the index it starts at; a row is the length and   *)
(* the mnemonic, and names of one length that follow each other share it.  *)
(* Entries the C source leaves out are {0, NULL}.                          *)
(***************************************************************************)
EXTENDS Integers, Sequences

NULL == "NULL"

\* Consecutive names of one length.
L(length, names) == [n \in DOMAIN names |-> [length |-> length, mnemonic |-> names[n]]]

vb6_table_00_0 ==
  {<<0, L(2, <<"LargeBos">>) \o L(5, <<"InvalidExcode">>) \o L(2, <<"SelectCaseByte">>)>>, <<4,
   L(3, <<"FLdRfVar", "ImpAdLdRf", "MemLdRfVar">>) \o L(5, <<"FMemLdRf">>) \o L(3, <<"FLdPr">>) \o
   L(5, <<"ImpAdCallHresult", "ImpAdCallFPR4", "ImpAdCallI2", "ImpAdCallCy", "VCallHresult">>) \o
   L(3, <<"VCallFPR8", "VCallAd">>) \o L(5, <<"ThisVCallHresult">>) \o L(3, <<"ThisVCall",
   "ThisVCallAd">>) \o L(1, <<"ExitProcHresult", "ExitProc", "ExitProcI2", "ExitProcR4",
   "ExitProcR8", "ExitProcCy">>) \o L(3, <<"FStAdFunc", "FFree1Ad", "LitStr", "BranchF", "BranchT",
   "Branch", "CRec2Ansi", "CRec2Uni">>) \o L(1, <<"FLdPrThis">>) \o L(3, <<"ImpAdLdPr",
   "FStStrNoPop", "NewIfNullPr">>) \o L(1, <<"PopAdLdVar">>) \o L(3, <<"AryDescTemp",
   "LitVar_Missing">>) \o L(5, <<"LitVarI2">>) \o L(-1, <<"FFreeAd">>) \o L(1, <<"ConcatStr">>) \o
   L(3, <<"PopTmpLdAd2">>) \o L(5, <<"LateIdSt">>) \o L(3, <<"AryUnlock", "AryLock", "FFree1Str",
   "PopTmpLdAd8", "FStStr">>) \o L(-1, <<"FFreeStr">>) \o L(3, <<"LdFixedStr">>) \o L(1,
   <<"CStr2Ansi">>) \o L(3, <<"FFree1Var">>) \o L(-1, <<"FFreeVar">>) \o L(1, <<"PopFPR4">>) \o
   L(3, <<"CopyBytes">>) \o L(1, <<"PopFPR8">>) \o L(5, <<"LitVarStr">>) \o L(1, <<"Ary1StStrCopy",
   "SetLastSystemError">>) \o L(3, <<"CastAd", "FLdZeroAd", "CVarCy">>) \o L(1, <<"Ary1LdRf",
   "Ary1LdPr", "CR4Var">>) \o L(3, <<"FStStrCopy", "CVarI2">>) \o L(1, <<"Error">>) \o L(3,
   <<"CVarStr", "StFixedStr", "ILdPr">>) \o L(1, <<"PopAdLd4", "FnLenStr">>) \o L(3,
   <<"OnErrorGoto">>) \o L(1, <<"FnLBound">>) \o L(5, <<"CVarRef">>) \o L(3, <<"FStVarCopyObj",
   "MidStr">>) \o L(1, <<"CI4Str">>)>>, <<82, L(1, <<"Ary1StVar", "CBoolCy">>) \o L(5,
   <<"FMemStStrCopy">>) \o L(1, <<"CI2Var">>) \o L(3, <<"NewIfNullAd">>) \o L(5,
   <<"LateMemLdVar">>) \o L(3, <<"MemLdPr", "PopTmpLdAdStr">>) \o L(1, <<"Erase">>) \o L(3,
   <<"FStAdFuncNoPop", "BranchFVar">>) \o L(1, <<"HardType">>)>>, <<95, L(5, <<"FMemLdPr">>) \o
   L(1, <<"CStrVarTmp">>) \o L(7, <<"LateIdLdVar">>) \o L(3, <<"IStDarg", "LitVar_TRUE">>) \o L(5,
   <<"NextI2", "NextStepI2", "NextI4", "NextStepI4", "NextStepR4", "NextStepR8", "NextStepCy">>) \o
   L(3, <<"FLdI2", "ILdRf", "FLdR8", "FLdFPR4", "FLdFPR8", "FStI2", "FStR4", "FStR8", "FStFPR4",
   "FStFPR8", "ImpAdLdI2", "ImpAdLdI4", "ImpAdLdCy", "ImpAdLdFPR4", "ImpAdLdFPR8", "ImpAdStI2",
   "ImpAdStR4", "ImpAdStCy", "ImpAdStFPR4", "ImpAdStFPR8", "ILdI2", "ILdI4", "ILdR8",
   "ILdFPR4">>)>>}

vb6_table_00_1 ==
  {<<131, L(3, <<"ILdFPR8", "IStI2", "IStI4", "IStR8", "IStFPR4", "IStFPR8", "MemLdI2", "MemLdStr",
   "MemLdR8", "MemLdFPR4", "MemLdFPR8", "MemStI2", "MemStI4", "MemStR8", "MemStFPR4",
   "MemStFPR8">>) \o L(5, <<"FMemLdI2", "FMemLdR4", "FMemLdCy", "FMemLdFPR4", "FMemLdFPR8",
   "FMemStI2", "FMemStI4", "FMemStR8", "FMemStFPR4", "FMemStFPR8">>) \o L(1, <<"Ary1LdI2",
   "Ary1LdI4", "Ary1LdCy", "Ary1LdFPR4", "Ary1LdFPR8", "Ary1StI2", "Ary1StI4", "Ary1StCy",
   "Ary1StFPR4", "Ary1StFPR8">>) \o L(3, <<"AryLdPr", "AryLdRf">>) \o L(1, <<"AddI2", "AddI4",
   "AddR8", "AddCy", "SubI2", "SubI4", "SubR4", "SubCy", "MulI2", "MulI4", "MulR8", "MulCy",
   "MulCyI2", "DivR8", "UMiI2", "UMiI4", "UMiR8", "UMiCy", "FnAbsI2", "FnAbsI4", "FnAbsR4",
   "FnAbsCy", "IDvI2", "IDvI4", "ModI2", "ModI4", "NotI4", "AndI4", "OrI4", "EqI2", "EqI4", "EqR4",
   "EqCy", "EqCyR8", "NeI2", "NeI4", "NeR8", "NeCy", "NeCyR8", "LtI2", "LtI4", "LtR8", "LtCy",
   "LtCyR8", "LeI2", "LeI4", "LeR8", "LeCy", "LeCyR8", "GtI2", "GtI4", "GtR4", "GtCy", "GtCyR8",
   "GeI2", "GeI4", "GeR8", "GeCy", "GeCyR8", "CI2I4", "CI2R8", "CI2Cy", "CI4UI1", "CI4R8", "CI4Cy",
   "CR4R4", "CR8I2", "CR8I4", "CR8R8", "CR8Cy", "CCyI2", "CCyI4", "CCyR4", "CDateR8">>) \o L(3,
   <<"LitI2">>) \o L(2, <<"LitI2_Byte">>) \o L(5, <<"LitI4">>) \o L(9, <<"LitCy">>) \o L(5,
   <<"LitCy4">>) \o L(3, <<"LitI2FP">>) \o L(5, <<"LitR4FP">>) \o L(9, <<"LitDate">>) \o L(1,
   <<"Lead0", "Lead1", "Lead2", "Lead3", "Lead4">>)>>}

vb6_table_fb_0 ==
  {<<1, L(1, <<"ImpUI1", "ImpI4">>)>>, <<7, L(3, <<"ImpVar">>)>>, <<9, L(1, <<"EqvUI1",
   "EqvI4">>)>>, <<15, L(3, <<"EqvVar">>)>>, <<17, L(1, <<"XorI4">>)>>, <<23, L(3, <<"XorVar">>)>>,
   <<25, L(1, <<"OrI2">>)>>, <<31, L(3, <<"OrVar">>)>>, <<33, L(1, <<"AndUI1">>)>>, <<39, L(3,
   <<"AndVar">>)>>, <<41, L(1, <<"EqI2", "EqI2", "EqI4", "EqR8", "EqR8", "EqCy">>) \o L(3,
   <<"EqVar">>) \o L(1, <<"EqStr">>) \o L(3, <<"EqTextVar">>) \o L(1, <<"EqTextStr", "EqVarBool",
   "EqTextVarBool", "EqCyR8", "NeUI1", "NeUI1">>)>>, <<57, L(1, <<"NeR4", "NeR4", "NeCy">>) \o L(3,
   <<"NeVar">>) \o L(1, <<"NeStr">>) \o L(3, <<"NeTextVar">>) \o L(1, <<"NeTextStr", "NeVarBool",
   "NeTextVarBool", "NeCyR8", "LeUI1", "LeI2">>)>>, <<70, L(1, <<"LeR4", "LeR4", "LeCy">>) \o L(3,
   <<"LeVar">>) \o L(1, <<"LeStr">>) \o L(3, <<"LeTextVar">>) \o L(1, <<"LeTextStr", "LeVarBool",
   "LeTextVarBool", "LeCyR8", "GeUI1", "GeI2">>)>>, <<83, L(1, <<"GeR4", "GeR4", "GeCy">>) \o L(3,
   <<"GeVar">>) \o L(1, <<"GeStr">>) \o L(3, <<"GeTextVar">>) \o L(1, <<"GeTextStr", "GeVarBool",
   "GeTextVarBool", "GeCyR8", "LtUI1", "LtI2", "LtI4", "LtR4", "LtR4", "LtCy">>) \o L(3,
   <<"LtVar">>) \o L(1, <<"LtStr">>) \o L(3, <<"LtTextVar">>) \o L(1, <<"LtTextStr", "LtVarBool",
   "LtTextVarBool", "LtCyR8", "GtUI1", "GtI2">>)>>, <<109, L(1, <<"GtR4", "GtR4", "GtCy">>) \o L(3,
   <<"GtVar">>) \o L(1, <<"GtStr">>) \o L(3, <<"GtTextVar">>) \o L(1, <<"GtTextStr", "GtVarBool",
   "GtTextVarBool", "GtCyR8">>)>>, <<125, L(3, <<"LikeVar">>) \o L(1, <<"LikeStr">>) \o L(3,
   <<"LikeTextVar">>) \o L(1, <<"LikeTextStr", "LikeVarBool", "LikeTextVarBool">>)>>, <<132, L(1,
   <<"BetweenUI1", "BetweenI2", "BetweenI4", "BetweenR4", "BetweenR4", "BetweenCy", "BetweenVar",
   "BetweenStr", "BetweenTextVar", "BetweenTextStr", "AddUI1", "AddI2">>)>>, <<145, L(1, <<"AddR4",
   "AddR4", "AddCy">>) \o L(3, <<"AddVar">>)>>, <<150, L(1, <<"SubUI1", "SubI2", "SubI4", "SubR4",
   "SubR4", "SubCy">>) \o L(3, <<"SubVar">>)>>, <<158, L(1, <<"ModUI1", "ModI2", "ModI4">>)>>,
   <<164, L(3, <<"ModVar">>)>>, <<166, L(1, <<"IDvUI1", "IDvI2", "IDvI4">>)>>, <<172, L(3,
   <<"IDvVar">>) \o L(0, <<"Unknow">>) \o L(1, <<"MulUI1", "MulI2", "MulI4", "MulR4">>)>>}

vb6_table_fb_1 ==
  {<<178, L(1, <<"MulR4", "MulCy">>) \o L(3, <<"MulVar">>)>>, <<188, L(3, <<"DivVar">>)>>, <<190,
   L(1, <<"NotUI1", "NotI4", "NotI4">>)>>, <<196, L(3, <<"NotVar">>)>>, <<199, L(1, <<"UMiI2",
   "UMiI2", "UMiR4", "UMiR4", "UMiCy">>) \o L(3, <<"UMiVar">>)>>, <<206, L(3, <<"PwrVar">>) \o L(1,
   <<"PwrR8R8", "PwrR8I2", "MulCyI2", "Is">>)>>, <<212, L(1, <<"FnAbsI2", "FnAbsI4", "FnAbsR4",
   "FnAbsR4", "FnAbsCy">>) \o L(3, <<"FnAbsVar">>)>>, <<222, L(1, <<"FnFixR8", "FnFixR8",
   "FnFixCy">>) \o L(3, <<"FnFixVar">>)>>, <<230, L(1, <<"FnIntR8", "FnIntR8", "FnIntCy">>) \o L(3,
   <<"FnIntVar">>)>>, <<235, L(3, <<"FnLenVar">>) \o L(1, <<"FnLenStr">>) \o L(3, <<"FnLenBVar">>)
   \o L(1, <<"FnLenBStr">>) \o L(3, <<"ConcatVar">>)>>, <<242, L(1, <<"FnSgnUI1", "FnSgnUI1",
   "FnSgnI4", "FnSgnR8", "FnSgnR4", "FnSgnCy">>)>>, <<250, L(1, <<"SeekFile", "NameFile", "CStrI2",
   "CStrUI1", "CStrI4", "CStrR4">>)>>}

vb6_table_fc_0 ==
  {<<0, L(1, <<"CStrR8", "CStrCy", "CStrVar">>)>>, <<6, L(1, <<"CCyI4", "CCyR4", "CCyR4">>)>>,
   <<10, L(1, <<"CCyVar", "CCyStr">>)>>, <<13, L(1, <<"CUI1I2", "CUI1I4", "CUI1R4", "CUI1R4",
   "CUI1Cy", "CUI1Var", "CUI1Str", "CI2UI1">>)>>, <<22, L(1, <<"CI2I4", "CI2R8", "CI2R8", "CI2Cy",
   "CI2Var", "CI2Str", "CI4UI1", "CI4UI1">>)>>, <<31, L(1, <<"CI4R8", "CI4R8", "CI4Cy", "CI4Var",
   "CI4Str", "FnCSngI2", "FnCSngI2", "CR4I4", "CR4R8", "CR4R8", "CR8Cy", "CR8Var", "CR4Str",
   "FnCSngI2", "FnCSngI2", "CR4I4", "CR8R4", "CR8R4", "CR8Cy", "CR8Var", "CR8Str", "CAdVar",
   "CRefVarAry">>)>>, <<56, L(1, <<"CUI1Bool", "FnCDblCy", "FnCDblR8", "FnCDblR8", "FnCSngI2",
   "FnCSngI2", "FnCSngI4", "CSng", "CSng", "FnCSngCy", "FnCSngVar", "FnCSngStr", "FnCByteVar",
   "FnCIntVar", "FnCLngVar", "CDateR8", "FnCDblVar", "FnCCurVar">>)>>, <<75, L(1,
   <<"FnCStrVar">>)>>, <<77, L(1, <<"FnCBoolVar", "FnCDateVar", "FnCDateVar", "CBoolUI1",
   "CBoolUI1", "CBoolI4", "CBoolR4", "CBoolR4", "CBoolCy", "CBoolVar", "CBoolStr", "CStr2Uni",
   "CStrAry2Uni", "CStr2Ansi", "CStrAry2Ansi", "PopAdLd4">>) \o L(3, <<"CRecAnsi2Uni",
   "CRecUni2Ansi", "CStr2Vec", "CVar2Vec">>) \o L(5, <<"CVec2Var">>) \o L(1, <<"GetLastError",
   "LitNothing">>) \o L(3, <<"LitVar_NULL", "LitVar_TRUE", "LitVar_FALSE", "LitVar_Empty">>)>>,
   <<106, L(5, <<"ThisVCallHresult">>)>>, <<111, L(3, <<"CheckTypeVar">>)>>, <<113, L(1,
   <<"CUnkVar">>) \o L(3, <<"CVarUnk">>) \o L(1, <<"LdPrUnkVar">>) \o L(9, <<"FLdLateIdUnkVar">>)
   \o L(1, <<"GetRec3", "GetRec4", "PutRec3", "PutRec4">>) \o L(-1, <<"GetRecOwner3",
   "GetRecOwner4", "PutRecOwner3", "PutRecOwner4">>) \o L(1, <<"Input", "InputDone",
   "InputItemUI1", "InputItemI2", "InputItemI4", "InputItemR4", "InputItemR8", "InputItemCy",
   "InputItemVar", "InputItemStr", "InputItemBool", "InputItemDate", "PopFPR4", "PopFPR8",
   "PopAd">>)>>, <<141, L(3, <<"AryLdPr", "AryLdRf">>) \o L(5, <<"ParmAry1St">>) \o L(1,
   <<"Ary1LdUI1", "Ary1LdI2">>)>>, <<148, L(1, <<"Ary1LdR8">>)>>}

vb6_table_fc_1 ==
  {<<149, L(1, <<"Ary1LdR8", "Ary1LdRfVar">>)>>, <<153, L(1, <<"Ary1LdFPR4", "Ary1LdFPR8",
   "Ary1LdPr", "Ary1LdRf", "Ary1LdVar">>)>>, <<160, L(1, <<"Ary1StUI1", "Ary1StI2", "Ary1StR4",
   "Ary1StR4", "Ary1StCy", "Ary1StCy", "Ary1StVar", "Ary1StStr", "Ary1StAd", "Ary1StFPR4",
   "Ary1StFPR8", "Ary1StVarAd", "Ary1StVarAdFunc", "Ary1StVarUnk", "Ary1StVarUnkFunc",
   "Ary1StAdFunc", "Ary1StVarCopy", "Ary1StStrCopy">>) \o L(3, <<"Ary1LdRfVarg">>) \o L(1,
   <<"Ary1LdVarg", "Ary1LdRfVargParam", "Ary1StVarg", "Ary1StVargCopy", "Ary1StVargAd",
   "Ary1StVargAdFunc", "Ary1StVargUnk", "Ary1StVargUnkFunc", "MidVar">>) \o L(3, <<"MidBStr">>) \o
   L(1, <<"MidBVar">>) \o L(3, <<"MidBStrB">>) \o L(1, <<"LineInputVar", "LineInputStr", "Error",
   "Stop", "Erase">>) \o L(2, <<"LargeBos">>)>>, <<200, L(1, <<"End", "Return", "FnLBound",
   "FnUBound", "ExitProcUI1", "ExitProcI2", "ExitProcStr", "ExitProcR4", "ExitProcR8",
   "ExitProcCy">>)>>, <<211, L(1, <<"ExitProcStr", "ExitProcStr", "ExitProcStr">>)>>, <<224, L(3,
   <<"FLdUI1", "FLdI2", "FLdR4", "FLdR4", "FLdR8", "FLdR8">>)>>, <<231, L(3, <<"FLdR4", "FLdR4",
   "FLdFPR4">>)>>, <<237, L(3, <<"FLdVar">>)>>, <<240, L(3, <<"FStUI1">>)>>, <<246, L(3,
   <<"FStVar">>)>>, <<248, L(3, <<"FStAd">>)>>, <<251, L(3, <<"FStVarAd", "FStVarAdFunc",
   "FStVarUnk", "FStVarUnkFunc">>)>>}

vb6_table_fd_0 ==
  {<<0, L(3, <<"FStVarCopy">>)>>, <<2, L(1, <<"HardType">>)>>, <<5, L(3, <<"BranchFVar",
   "BranchFVarFree">>)>>, <<8, L(3, <<"BranchTVar", "BranchTVarFree", "Gosub", "OnErrorGoto",
   "Resume", "AryLock", "AryUnlock", "AryDescTemp", "ILdUI1">>)>>, <<18, L(3, <<"ILdAd", "ILdAd",
   "ILdR8", "ILdR8">>) \o L(5, <<"ILdRfDarg">>) \o L(3, <<"ILdAd", "ILdAd", "ILdFPR4", "ILdFPR8",
   "ILdPr", "FLdR4", "ILdDarg">>)>>, <<32, L(3, <<"IStUI1", "IStI2", "IStI4", "IStI4", "IStR8",
   "IStR8", "IStDarg", "IStStr", "IStAd", "IStFPR4", "IStFPR8", "IStDargAd", "IStDargAdFunc",
   "IStDargUnk", "IStDargUnkFunc", "IStAdFunc", "IStDargCopy", "IStStrCopy">>) \o L(1,
   <<"PrintChan", "WriteChan", "PrintComma", "PrintEos", "PrintNL", "PrintItemComma",
   "PrintItemSemi", "PrintItemNL">>) \o L(3, <<"PrintObj">>) \o L(1, <<"PrintSpc", "PrintTab",
   "Close", "CloseAll">>)>>, <<64, L(3, <<"IWMemLdUI1", "IWMemLdI2", "IWMemLdI4", "IWMemLdI4",
   "IWMemLdCy", "IWMemLdCy">>) \o L(5, <<"IWMemLdRfDarg">>) \o L(3, <<"IWMemLdI4", "IWMemLdI4",
   "IWMemLdFPR4", "IWMemLdFPR8", "IWMemLdPr", "IWMemLdRf", "IWMemLdDarg">>)>>, <<80, L(3,
   <<"IWMemStUI1", "IWMemStI2", "IWMemStR4", "IWMemStR4", "IWMemStCy", "IWMemStCy", "IWMemStDarg",
   "IWMemStStr", "IWMemStAd", "IWMemStFPR4", "IWMemStFPR8", "IWMemStDargAd", "IWMemStDargAdFunc",
   "IWMemStDargUnk", "IWMemStDargUnkFunc", "IWMemStAdFunc", "IWMemStDargCopy",
   "IWMemStStrCopy">>)>>, <<99, L(3, <<"FStVarNoPop", "FStStrNoPop">>)>>, <<103, L(3, <<"CVarUI1",
   "CVarI2", "CVarI4", "CVarR4", "CVarR8", "CVarCy">>)>>, <<110, L(3, <<"CVarStr", "CVarAd",
   "MemLdUI1h%", "MemLdI2", "MemLdR4", "MemLdR4", "MemLdR8", "MemLdR8", "MemLdRfVar", "MemLdR4",
   "MemLdR4", "MemLdFPR4", "MemLdFPR8", "MemLdPr", "MemLdRfVar", "MemLdVar">>)>>, <<128, L(3,
   <<"MemStUI1", "MemStI2", "MemStR4", "MemStR4", "MemStCy", "MemStCy", "MemStVar", "MemStStr",
   "MemStAd", "MemStFPR4", "MemStFPR8", "MemStVarAd", "MemStVarAdFunc", "MemStVarUnk",
   "MemStVarUnkFunc", "MemStAdFunc">>)>>}

vb6_table_fd_1 ==
  {<<144, L(3, <<"MemStVarCopy", "MemStStrCopy">>)>>, <<147, L(3, <<"CDargRef">>) \o L(5,
   <<"CVarRef">>) \o L(3, <<"ExitProcCb", "ExitProcCbStack">>)>>, <<156, L(3, <<"FStAdNoPop">>)>>,
   <<159, L(1, <<"LdPrVar">>) \o L(3, <<"ImpAdLdUI1", "ImpAdLdI2", "ImpAdLdStr", "ImpAdLdStr",
   "ImpAdLdCy", "ImpAdLdCy">>)>>, <<167, L(3, <<"ImpAdLdStr", "ImpAdLdStr", "ImpAdLdFPR4",
   "ImpAdLdFPR8", "ImpAdLdPr">>)>>, <<173, L(3, <<"ImpAdLdVar">>)>>, <<176, L(3, <<"ImpAdStUI1",
   "ImpAdStI2", "ImpAdStR4", "ImpAdStR4", "ImpAdStR8", "ImpAdStR8", "ImpAdStVar", "ImpAdStStr",
   "ImpAdStAd", "ImpAdStFPR4", "ImpAdStFPR8", "ImpAdStVarAd", "ImpAdStVarAdFunc", "ImpAdStVarUnk",
   "ImpAdStVarUnkFunc", "ImpAdStAdFunc", "ImpAdStVarCopy", "ImpAdStStrCopy", "PopTmpLdAd1",
   "PopTmpLdAd2", "PopTmpLdAdStr", "PopTmpLdAd8", "PopTmpLdAdVar", "PopTmpLdAdStr",
   "PopTmpLdAdFPR4", "PopTmpLdAdFPR8", "CopyBytes">>) \o L(5, <<"ExitForCollObj", "ExitForCollObj",
   "ExitForCollObj", "ExitForAryVar", "ExitForVar", "FMemLdUI1", "FMemLdI2", "FMemLdR4",
   "FMemLdR4", "FMemLdR8", "FMemLdR8", "FMemLdRf", "FMemLdR4", "FMemLdR4", "FMemLdFPR4",
   "FMemLdFPR8", "FMemLdPr", "FMemLdRf", "FMemLdVar">>)>>, <<224, L(5, <<"FMemStUI1", "FMemStI2",
   "FMemStR4", "FMemStR4", "FMemStR8", "FMemStR8", "FMemStVar", "FMemStStr", "FMemStAd",
   "FMemStFPR4", "FMemStFPR8", "FMemStVarAd", "FMemStVarAdFunc", "FMemStVarUnk",
   "FMemStVarUnkFunc", "FMemStAdFunc", "FMemStVarCopy", "FMemStStrCopy">>) \o L(3, <<"CastAd",
   "CastAdVar", "New", "NewIfNullRf", "NewIfNullAd">>)>>, <<248, L(3, <<"CVarBoolI2",
   "CVarDateVar", "CVarErrI4", "CVarDate", "CVarAryVarg">>) \o L(1, <<"CStrVarTmp">>) \o L(3,
   <<"CStrVarVal">>) \o L(5, <<"DestructOFrame">>)>>}

vb6_table_fe_0 ==
  {<<0, L(3, <<"ThisVCallUI1", "ThisVCallI2", "ThisVCallI2", "ThisVCallR4", "ThisVCallR8",
   "ThisVCallCy">>)>>, <<7, L(3, <<"ThisVCallI2", "ThisVCallI2", "ThisVCallHidden",
   "ThisVCallHidden">>)>>, <<12, L(3, <<"ThisVCallHidden">>) \o L(5, <<"ThisVCallCbFrame">>) \o
   L(3, <<"StLsetFixStr", "StFixedStrFree", "VCallUI1", "VCallStr", "VCallStr", "VCallR4",
   "VCallR8", "VCallCy">>)>>, <<23, L(3, <<"VCallStr", "VCallStr", "VCallFPR8", "VCallFPR8">>)>>,
   <<28, L(3, <<"VCallFPR8">>) \o L(5, <<"VCallCbFrame">>) \o L(3, <<"StFixedStrR",
   "StFixedStrRFree">>) \o L(5, <<"ImpAdCallUI1", "ImpAdCallI4">>)>>, <<35, L(5, <<"ImpAdCallR4",
   "ImpAdCallR8", "ImpAdCallCy">>)>>, <<39, L(5, <<"ImpAdCallI4">>)>>, <<45, L(9,
   <<"ImpAdCallCbFrame">>) \o L(3, <<"LdStkRf", "LdFrameRf">>)>>, <<61, L(5, <<"LitVarUI1">>)>>,
   <<77, L(1, <<"SetVarVar", "SetVarVarFunc">>) \o L(5, <<"ImpAdCallHresult">>)>>, <<93, L(3,
   <<"OpenFile", "LockFile">>)>>, <<96, L(3, <<"EraseDestruct", "LdFixedStr">>) \o L(5, <<"ForUI1",
   "ForI2", "ForI4", "ForR4", "ForR8", "ForCy", "ForVar">>)>>, <<106, L(5, <<"ForStepUI1",
   "ForStepI2", "ForStepI4", "ForStepR4", "ForStepR8", "ForStepCy", "ForStepVar">>)>>, <<114, L(5,
   <<"ForEachCollVar", "NextEachCollVar", "ForEachCollAd", "NextEachCollAd">>) \o L(7,
   <<"ForEachAryVar", "NextEachAryVar">>) \o L(5, <<"NextUI1">>)>>, <<124, L(5, <<"NextR8">>)>>,
   <<126, L(5, <<"NextStepVar">>)>>, <<128, L(5, <<"NextStepUI1">>)>>, <<130, L(5, <<"NextStepI4",
   "NextStepR4">>)>>, <<136, L(7, <<"ForEachCollObj">>) \o L(5, <<"ForEachVar", "ForEachVarFree">>)
   \o L(7, <<"NextEachCollObj">>) \o L(9, <<"NextEachVar">>) \o L(3, <<"CheckType">>) \o L(9,
   <<"Redim", "RedimPreserve">>) \o L(5, <<"RedimVar", "RedimPreserveVar", "FDupVar",
   "FDupStr">>)>>, <<149, L(7, <<"OnGosub", "OnGoto">>) \o L(1, <<"AddRef">>) \o L(5,
   <<"LateMemCall", "LateMemLdVar">>) \o L(7, <<"LateMemCallLdVar">>) \o L(3, <<"LateMemSt">>) \o
   L(5, <<"LateMemCallSt", "LateMemStAd">>) \o L(4, <<"ExitProcFrameCb", "ExitProcFrameCbStack">>)
   \o L(7, <<"LateIdCall", "LateIdLdVar">>) \o L(9, <<"LateIdCallLdVar">>) \o L(5, <<"LateIdSt">>)
   \o L(7, <<"LateIdCallSt", "LateIdStAd", "LateMemNamedCall">>) \o L(9,
   <<"LateMemNamedCallLdVar">>) \o L(7, <<"LateMemNamedCallSt", "LateMemNamedStAd">>) \o L(9,
   <<"LateIdNamedCall">>) \o L(17, <<"LateIdNamedCallLdVar">>) \o L(9, <<"LateIdNamedCallSt",
   "LateIdNamedStAd">>) \o L(5, <<"VarIndexLdVar", "VarIndexLdRfVar">>) \o L(3, <<"VarIndexSt",
   "VarIndexStAd">>)>>, <<182, L(3, <<"LitI2FP">>) \o L(5, <<"LitCy4">>)>>, <<186, L(5,
   <<"LitR4FP">>) \o L(9, <<"LitR8", "LitR8", "LitR8FP", "LitR8FP">>)>>, <<193, L(7, <<"LitVarI4",
   "LitVarR4">>) \o L(17, <<"LitVarCy", "LitVarR8", "LitVarDate">>)>>, <<199, L(1, <<"CStrBool",
   "CStrDate", "CDateStr">>)>>, <<204, L(1, <<"FreeStrNoPop">>)>>}

vb6_table_fe_1 ==
  {<<205, L(1, <<"FreeVarNoPop", "FreeAdNoPop", "EraseNoPop">>) \o L(3, <<"WMemLdUI1", "WMemLdI2",
   "WMemLdStr", "WMemLdStr", "WMemLdCy", "WMemLdCy", "WMemLdRfVar", "WMemLdStr", "WMemLdStr",
   "WMemLdFPR4", "WMemLdFPR8", "IWMemLdPr", "WMemLdRfVar", "WMemLdVar">>)>>, <<224, L(3,
   <<"WMemStUI1", "WMemStI2", "WMemStR4", "WMemStR4", "WMemStR8", "WMemStR8", "WMemStVar",
   "WMemStStr", "WMemStAd", "WMemStFPR4", "WMemStFPR8", "WMemStVarAd", "WMemStVarAdFunc",
   "WMemStVarUnk", "WMemStVarUnkFunc", "WMemStAdFunc", "WMemStVarCopy", "WMemStStrCopy">>) \o L(7,
   <<"VarIndexLdRfVarLock">>)>>, <<245, L(3, <<"AssignRecord">>) \o L(5, <<"DestructAnsiOFrame">>)
   \o L(3, <<"FStVarZero">>)>>, <<249, L(1, <<"VerifyVarObj", "VerifyPVarObj", "FnInStrB4">>) \o
   L(3, <<"FnInStrB4Var">>) \o L(1, <<"FnInStr4">>) \o L(3, <<"FnInStr4Var">>) \o L(1,
   <<"FnStrComp3">>)>>}

vb6_table_ff_0 ==
  {<<0, L(3, <<"FnStrComp3Var">>) \o L(1, <<"StAryMove", "StAryCopy">>) \o L(3, <<"StAryRecMove",
   "StAryRecCopy">>)>>, <<6, L(5, <<"AryInRecLdPr", "AryInRecLdRf">>) \o L(1, <<"CExtInstUnk">>) \o
   L(3, <<"IStVarCopyObj">>) \o L(1, <<"ArrayRebase1Var", "Assert">>) \o L(7, <<"RaiseEvent">>) \o
   L(5, <<"PrintObject", "PrintFile", "WriteFile", "InputFile">>)>>, <<18, L(1, <<"GetRecFxStr3",
   "GetRecFxStr4", "PutRecFxStr3", "PutRecFxStr4">>) \o L(3, <<"GetRecOwn3", "GetRecOwn4",
   "PutRecOwn3", "PutRecOwn4">>) \o L(2, <<"LitI2_Byte">>) \o L(1, <<"CBoolVarNull">>) \o L(2,
   <<"LargeBos">>) \o L(1, <<"Bos">>) \o L(5, <<"ImpAdCallNonVirt">>)>>, <<42, L(3,
   <<"DestructRecord", "VCallFPR8", "ThisVCallHidden">>) \o L(1, <<"ZeroRetVal", "ZeroRetValVar">>)
   \o L(5, <<"ExitProcCbHresult">>) \o L(7, <<"ExitProcFrameCbHresult">>) \o L(3,
   <<"EraseDestrKeepData">>) \o L(5, <<"CDargRefUdt", "CVarRefUdt", "CVarUdt">>) \o L(3,
   <<"StUdtVar", "StAryVar", "CopyBytesZero">>) \o L(5, <<"FLdZeroAry">>) \o L(3, <<"FStVarZero">>)
   \o L(7, <<"CVarAryUdt", "RedimVarUdt", "RedimPreserveVarUdt">>) \o L(5, <<"VarLateMemLdRfVar">>)
   \o L(6, <<"VarLateMemCallLdRfVar">>)>>, <<65, L(5, <<"VarLateMemLdVar">>) \o L(7,
   <<"VarLateMemCallLdVar">>) \o L(3, <<"VarLateMemSt">>) \o L(5, <<"VarLateMemCallSt",
   "VarLateMemStAd">>)>>}

\* The array behind the runs.
Table(runs) ==
  LET row(run, i) == run[2][i - run[1] + 1]
      in(run, i)  == i \in run[1] .. run[1] + Len(run[2]) - 1
  IN  [i \in 0..255 |-> IF \E run \in runs : in(run, i)
                          THEN row(CHOOSE run \in runs : in(run, i), i)
                          ELSE [length |-> 0, mnemonic |-> NULL]]

vb6_tables ==
  [k \in 0..5 |-> Table(CASE k = 0 -> vb6_table_00_0 \cup vb6_table_00_1
                          [] k = 1 -> vb6_table_fb_0 \cup vb6_table_fb_1
                          [] k = 2 -> vb6_table_fc_0 \cup vb6_table_fc_1
                          [] k = 3 -> vb6_table_fd_0 \cup vb6_table_fd_1
                          [] k = 4 -> vb6_table_fe_0 \cup vb6_table_fe_1
                          [] k = 5 -> vb6_table_ff_0)]
=============================================================================
