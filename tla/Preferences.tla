----------------------------- MODULE Preferences -----------------------------
(***************************************************************************)
(* The two drop-downs of the dashboard, language and theme, and the        *)
(* translation behind them (config/i18n.go).  A callback of one sets the   *)
(* other, whose callback runs inside it; the options of the theme          *)
(* drop-down are themselves translated, so that the meaning of what is     *)
(* selected changes with the language.  All of it runs on the UI thread.   *)
(***************************************************************************)
EXTENDS Naturals, Sequences

CONSTANTS
    Languages,      \* the codes of the embedded locales
    Untranslated    \* the <<language, key>> a locale has no entry for

ASSUME LanguagesAssumption ==
    /\ "en" \in Languages
    /\ Untranslated \cap ({"en"} \X {"theme_dark", "theme_light"}) = {}

VARIABLES
    currentLang,
    appTheme,               \* the theme the application is drawn in
    themeOptions,           \* themeSelect.Options
    themeSelected           \* themeSelect.Selected

prefVars == <<currentLang, appTheme, themeOptions, themeSelected>>

Themes == {"dark", "light"}
ThemeKeys == {"theme_dark", "theme_light"}

\* The text of a key: that of the locale, or else the English one.
Text(lang, key) ==
    IF <<lang, key>> \in Untranslated THEN <<"en", key>> ELSE <<lang, key>>

\* config.T
T(key) == Text(currentLang, key)

PrefTypeOK ==
    /\ currentLang \in Languages
    /\ appTheme \in Themes
    /\ themeOptions \in Seq(Languages \X ThemeKeys)
    /\ themeSelected \in Languages \X ThemeKeys

\* The initial selections of ShowDashboard: dark, and the language the
\* program starts with.
PrefInit ==
    /\ currentLang = "en"
    /\ appTheme = "dark"
    /\ themeOptions = <<T("theme_dark"), T("theme_light")>>
    /\ themeSelected = T("theme_dark")

\* The theme that the callback of themeSelect sets.
ThemeOf(selected, lang) ==
    IF selected = Text(lang, "theme_dark") THEN "dark" ELSE "light"

\* The position of what is selected among some options, or the first.
IndexIn(options, selected) ==
    IF \E i \in DOMAIN options : options[i] = selected
    THEN CHOOSE i \in DOMAIN options :
             /\ options[i] = selected
             /\ \A j \in 1..(i - 1) : options[j] # selected
    ELSE 1

\* Mutant: the position is looked for among the options just translated.
RefreshTooLate(lang, selected) ==
    LET options == <<Text(lang, "theme_dark"), Text(lang, "theme_light")>>
    IN  /\ themeOptions' = options
        /\ themeSelected' = options[IndexIn(options, selected)]
        /\ appTheme' = ThemeOf(themeSelected', lang)

\* refreshUIStrings: the options are translated, the one in the old
\* position is selected, and its callback sets the theme, without another
\* refresh inside the first.
Refresh(lang, selected) ==
    LET options == <<Text(lang, "theme_dark"), Text(lang, "theme_light")>>
    IN  /\ themeOptions' = options
        /\ themeSelected' = options[IndexIn(themeOptions, selected)]
        /\ appTheme' = ThemeOf(themeSelected', lang)

\* An option of the theme drop-down is selected: the callback sets the
\* theme and refreshes the texts, which selects the option once more.
ChooseTheme(i) ==
    /\ Refresh(currentLang, themeOptions[i])
    /\ UNCHANGED currentLang

\* A language is selected: its callback sets it and refreshes the texts.
ChooseLanguage(lang) ==
    /\ currentLang' = lang
    /\ Refresh(lang, themeSelected)

PrefNext ==
    \/ \E i \in DOMAIN themeOptions : ChooseTheme(i)
    \/ \E lang \in Languages : ChooseLanguage(lang)

PrefSpec == PrefInit /\ [][PrefNext]_prefVars

\* Another language never changes the theme: the callback that the
\* translated drop-down triggers finds the theme that was selected.
ThemeKept == [][currentLang' # currentLang => appTheme' = appTheme]_prefVars
=============================================================================
