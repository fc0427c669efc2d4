SPECIFICATION LexLiveSpec
CONSTANT Texts <- DottedTexts
PROPERTY LexTerminates
